---- MODULE Spec2Model ----
(***************************************************************************)
(* A model of the TACACS+ connection/session engine of nwaples/tacplus:    *)
(* the per-connection arbiter (conn.serve), the reader and writer tasks,   *)
(* the sessions with their sequence numbers, the Client facade with its    *)
(* cached connection and the server dispatch (ServerConnHandler).          *)
(*                                                                         *)
(* A TCP connection k has two ends, <<k,"C">> (the Client's conn) and      *)
(* <<k,"S">> (the conn ServerConnHandler.Serve creates).  Unbuffered Go    *)
(* channels (sessReq, sessClose, rc, wc) are rendezvous: the sender's and  *)
(* the receiver's step are one action.  Every select with several ready    *)
(* cases is a nondeterministic choice between the actions of its cases.    *)
(***************************************************************************)
EXTENDS Integers, Sequences, FiniteSets, TLC

\* ------------------------------------------------------------ bounds
MaxOps == 2         \* operations the caller starts (SendAcctRequest, ...)
MaxIds == 2         \* session ids the random source draws from
MaxRounds == 1      \* prompts a handler issues per session (GetUser, ...)
MaxCancel == 1      \* firings of a caller's context
MaxInject == 2      \* packets written by a foreign peer
MaxLen == 2         \* bytes in the variable-length fields of a packet value

\* every operation dials at most one connection and creates at most one
\* session; every packet creates at most one session at its receiver
MaxConns == MaxOps
MaxSess == 2 * MaxOps + 2

\* ------------------------------------------------------------ program constants
verDefault == 192
verDefaultMinorOne == 193
hdrFlagSingleConnect == 4
sessTypeAuthen == 1
sessTypeAuthor == 2
sessTypeAcct == 3
AuthenStatusPass == 1
AuthenStatusFail == 2
AuthenStatusGetData == 3
AuthenStatusGetUser == 4
AuthenStatusGetPass == 5
AuthenStatusRestart == 6
AuthenStatusError == 7
AuthenStatusFollow == 33
AuthorStatusPassAdd == 1
AuthorStatusError == 17
AcctStatusSuccess == 1
AcctStatusError == 2
SeqGuard == 254     \* 0xfe in ClientSession.Continue
ByteMod == 256      \* uint8 arithmetic of the sequence number
hdrLen == 12
md5Size == 16       \* md5.Size, the length of a pad block of crypt
maxUint8 == 255
maxUint16 == 65535
authenReplyFlagNoEcho == 1
authenContinueFlagAbort == 1
AuthenTypeASCII == 1
AuthenTypePAP == 2
AuthenTypeCHAP == 3
AuthenTypeARAP == 4
AuthenTypeMSCHAP == 5
AuthenActionLogin == 1
AuthenActionChangePass == 2
AuthenActionSendPass == 3
AuthenActionSendAuth == 4
TestIdleTimeout == 2    \* the idle timeout of TestClientIdleTimeout, in units of timeScale

VARIABLES
    env,     \* scenario parameters, fixed by Init
    cfg,     \* ConnConfig of the Client ("C") and of the ServerConnHandler ("S")
    conn,    \* the conn objects, by end <<k, side>>
    wire,    \* bytes in flight towards each end, as a sequence of raw packets
    sess,    \* the session objects, in order of creation
    cache,   \* Client.conn: the cached connection (0: nil)
    bg,      \* goroutines Client.newSession started: clearers and closers
    cl,      \* the caller of the Client's public operations
    ctx,     \* the context of the operation in progress
    cnt,     \* counters bounding the environment
    codec    \* a packet value on its way through marshal, crypt and unmarshal

vars == <<env, cfg, conn, wire, sess, cache, bg, cl, ctx, cnt, codec>>

\* no packet value is being encoded
NoCodec == [stage |-> "none"]

Conns == 1..MaxConns
Sides == {"C", "S"}
Ends == Conns \X Sides
Ids == 1..MaxIds

Peer(e) == <<e[1], IF e[2] = "C" THEN "S" ELSE "C">>

\* p[hdrSeqNo]++ and s.seq+1 on a uint8
Inc8(x) == (x + 1) % ByteMod

\* ------------------------------------------------------------ packets
\* A raw packet: the header fields, the decoded body (kind, status, abort,
\* msg), the secret its body is obfuscated with, and who wrote it.
NilP == [kind |-> "nil"]

Hdr(ver, typ, seq, flags, sid) ==
    [ver |-> ver, typ |-> typ, seq |-> seq, flags |-> flags, sid |-> sid]

Pkt(h, kind, status, abort, msg, key, src) ==
    [ver |-> h.ver, typ |-> h.typ, seq |-> h.seq, flags |-> h.flags, sid |-> h.sid,
     kind |-> kind, status |-> status, abort |-> abort, msg |-> msg,
     key |-> key, src |-> src]

HdrOf(p) == Hdr(p.ver, p.typ, p.seq, p.flags, p.sid)

\* a variant of AuthenReply.last that takes GetPass for a last reply
lastButGetPass(status) == status < AuthenStatusGetData \/ status > AuthenStatusGetUser

\* AuthenReply.last
last(status) == status < AuthenStatusGetData \/ status > AuthenStatusGetPass

\* conn.parity: 1 on a client connection (newConn), 0 on a server connection
parity(e) == IF e[2] = "C" THEN 1 ELSE 0

\* ------------------------------------------------------------ objects
\* newConn: mux = cfg.LegacyMux, checkMux = ~cfg.LegacyMux /\ cfg.Mux.
\* arb is the position of conn.serve: "serve" (in its select), "cleanup" (it
\* has returned and is inside the deferred cleanup, where cleanup is taken
\* statement by statement) or "exited" (returned, the deferred cleanup done).  idleT is "nil", "armed", "stopped",
\* "fired" (the timer has expired) or "ran" (its function c.close has run)
\* and left is the number of ticks an armed timer still has to run.  Beside the fields of the struct a connection records the
\* single-connection flag of the first packet conn.processPacket was given
\* (rx: "none" before it, then "flag" or "noflag") and what processPacket did
\* with the last packet it was given (pk: "none", "new" for a session created
\* on an empty table, "beside" for one created beside open sessions, "queued",
\* "full", or "dropped") and the number of ticks its table has been empty
\* (idle, counted up to the idle timeout), and whether the arbiter has served
\* a close request for a session that was closed already (stale).
newConn(side) ==
    [arb |-> "serve", mux |-> cfg[side].LegacyMux,
     checkMux |-> ~cfg[side].LegacyMux /\ cfg[side].Mux,
     tbl |-> {}, done |-> FALSE, err |-> "nil", idleT |-> "nil",
     wl |-> TRUE, rl |-> TRUE, nc |-> "open", rx |-> "none",
     pk |-> "none", left |-> 0, idle |-> 0,
     prep |-> <<>>, over |-> FALSE, qf |-> 0, stale |-> FALSE]

NoConn ==
    [arb |-> "none", mux |-> FALSE, checkMux |-> FALSE, tbl |-> {}, done |-> FALSE,
     err |-> "nil", idleT |-> "nil", wl |-> FALSE, rl |-> FALSE, nc |-> "none",
     rx |-> "none", pk |-> "none", left |-> 0, idle |-> 0,
     prep |-> <<>>, over |-> FALSE, qf |-> 0, stale |-> FALSE]

\* newSession(c, id), with the position pc of the task that owns it.  Beside
\* the fields of the struct a session records what its owner did with it: the
\* number of writePacket and readPacket calls that got to a packet (nwr, nrd),
\* the number of its packets the writer put on the socket (nsock), what its
\* last sendRequest returned (serr),
\* the last sequence number it accepted (lastr) and its last event ev: a write
\* ("w") or an accepted read ("r") of sequence number seq, made when the last
\* number sent was sent and the last number accepted was recv; whether it has
\* written or accepted an AuthenContinue with abort set (ab) and the number of
\* packets it handed to the writer after that (nab); the context its
\* RequestHandler was called with (hctx: "none" before the call, "sess" for
\* doneContext(s.done), "bg" for context.Background()).
NoEv == [kind |-> "none", seq |-> 0, sent |-> 0, recv |-> 0]

newSession(e, id, pc) ==
    [e |-> e, id |-> id, seq |-> 0, inq |-> <<>>, inClosed |-> FALSE, done |-> FALSE,
     err |-> "nil", p |-> NilP, pc |-> pc, op |-> "none", wr |-> NilP,
     ret |-> "none", rep |-> 0, rounds |-> 0, nwr |-> 0, nrd |-> 0, nsock |-> 0, serr |-> "none",
     lastr |-> 0, ev |-> NoEv, ab |-> FALSE, nab |-> 0, hctx |-> "none", seen |-> "none",
     rerr |-> "none", late |-> "none"]

\* c.sess[id]: the session of the table with this id, 0 when there is none
Lookup(c, ss, id) ==
    IF \E i \in c.tbl : ss[i].id = id
    THEN CHOOSE i \in c.tbl : ss[i].id = id
    ELSE 0

\* a Stop() that reports success whatever the timer's state
StopNeverFails(c) == FALSE
\* c.idleT != nil && !c.idleT.Stop(): the timer had already fired (or was stopped)
StopFails(c) == c.idleT \in {"fired", "ran", "stopped"}

\* a timer that Stop() leaves running
NotStopped(t) == t
\* the timer after Stop()
Stopped(t) == IF t = "armed" THEN "stopped" ELSE t

\* a closeSession without its check that s is the session of the table
closeSessionUnchecked(c, i, side) ==
    [c EXCEPT !.tbl = @ \ {i},
              !.idle = IF c.tbl \ {i} = {} THEN 0 ELSE @,
              !.idleT = IF c.tbl \ {i} = {} /\ c.mux /\ cfg[side].IdleTimeout > 0
                        THEN "armed" ELSE @,
              !.left = IF c.tbl \ {i} = {} /\ c.mux /\ cfg[side].IdleTimeout > 0
                       THEN cfg[side].IdleTimeout ELSE @]

\* a closeSession that leaves the session in the table
closeSessionKeepsEntry(c, i, side) == c

\* conn.closeSession, the connection's part: s is removed from the table and,
\* when the table empties on a multiplexed connection with an idle timeout,
\* the idle timer is created or reset
closeSessionConn(c, i, side) ==
    IF i \notin c.tbl THEN c
    ELSE [c EXCEPT !.tbl = @ \ {i},
                   !.idle = IF c.tbl = {i} THEN 0 ELSE @,
                   !.idleT = IF c.tbl = {i} /\ c.mux /\ cfg[side].IdleTimeout > 0
                             THEN "armed" ELSE @,
                   !.left = IF c.tbl = {i} /\ c.mux /\ cfg[side].IdleTimeout > 0
                            THEN cfg[side].IdleTimeout ELSE @]

\* a closeSession that leaves the done channel open
closeSessionLeavesDone(c, ss, i) ==
    IF i \notin c.tbl THEN ss
    ELSE [ss EXCEPT ![i].inClosed = TRUE, ![i].err = "SessionClosed"]

\* a closeSession that leaves the inbound channel open
closeSessionKeepsIn(c, ss, i) ==
    IF i \notin c.tbl THEN ss
    ELSE [ss EXCEPT ![i].done = TRUE, ![i].err = "SessionClosed"]

\* conn.closeSession, the session's part: close(s.done), close(s.in),
\* s.setErr(errSessionClosed)
closeSessionSess(c, ss, i) ==
    IF i \notin c.tbl THEN ss
    ELSE [ss EXCEPT ![i].done = TRUE, ![i].inClosed = TRUE, ![i].err = "SessionClosed"]

\* session.readErr: the session's latched error, else the connection's, else
\* SessionClosed
readErrVal(c, s) ==
    IF s.err # "nil" THEN s.err
    ELSE IF c.err # "nil" THEN c.err
    ELSE "SessionClosed"

\* session.readPacket's checks of a dequeued packet p against s.seq and the
\* connection's parity
SeqCheck(s, p) ==
    IF p.seq # Inc8(s.seq)
    THEN IF s.seq = 0 THEN "SessionNotFound" ELSE "InvalidSeqNo"
    ELSE IF p.seq % 2 = parity(s.e) THEN "InvalidSeqNo"
    ELSE "ok"

\* unmarshal of the body of p, read with secret key, as a packet of kind want
Unmarshal(p, key, want) ==
    IF p.key = key /\ p.kind = want THEN "ok" ELSE "BadPacket"

\* a cleanup that leaves the sessions of the table as they are
cleanupKeepsSessions(cn, ss, e) ==
    [cn |-> [cn EXCEPT ![e].arb = "exited", ![e].done = TRUE, ![e].nc = "closed",
                       ![e].rl = FALSE, ![e].idleT = Stopped(@)],
     ss |-> ss]

\* a cleanup without its first statement: the done channel stays as it is
cleanupLeavesDone(cn, ss, e) ==
    [cn |-> [cn EXCEPT ![e].arb = "exited", ![e].nc = "closed",
                       ![e].rl = FALSE, ![e].idleT = Stopped(@)],
     ss |-> [i \in 1..Len(ss) |->
                IF i \in cn[e].tbl
                THEN [ss[i] EXCEPT !.done = TRUE, !.inClosed = TRUE]
                ELSE ss[i]]]

\* conn.cleanup, deferred by conn.serve: c.close(), then done and in of every
\* session of the table are closed, the socket is closed and the idle timer
\* stopped; the reader, its socket closed, returns
cleanup(cn, ss, e) ==
    [cn |-> [cn EXCEPT ![e].arb = "exited", ![e].done = TRUE, ![e].nc = "closed",
                       ![e].rl = FALSE, ![e].idleT = Stopped(@)],
     ss |-> [i \in 1..Len(ss) |->
                IF i \in cn[e].tbl
                THEN [ss[i] EXCEPT !.done = TRUE, !.inClosed = TRUE]
                ELSE ss[i]]]

\* a serve loop without its tail: the arbiter goes on serving
NeverReturns(cn, ss, e) == [cn |-> cn, ss |-> ss]

\* the tail of the serve loop: a connection that is not multiplexed and has no
\* session left returns, which runs the deferred cleanup
AfterEvent(cn, ss, e) ==
    IF cn[e].tbl = {} /\ ~cn[e].mux THEN cleanup(cn, ss, e) ELSE [cn |-> cn, ss |-> ss]

\* the bytes in flight once the connections are cn: a closed socket drops what
\* it had not read
\* conn.prep lists the sessions whose packet is prepared (numbered and
\* obfuscated by session.writePacket) and not yet taken by the writer, in the
\* order of preparation; conn.over tells that the packet written last was
\* not the one prepared first
Without(q, i) == SelectSeq(q, LAMBDA x : x # i)

Flush(w, cn) == [e \in Ends |-> IF cn[e].nc = "closed" THEN <<>> ELSE w[e]]

\* ------------------------------------------------------------ steps of a task
\* The operators below take and return a bundle b = [ss, cn, cl, r]: the
\* sessions, the connections, the caller and the result of the step.
Bundle == [ss |-> sess, cn |-> conn, cl |-> cl, r |-> "ok", q |-> NilP]

\* session.readErr with its effects: s.err is latched to SessionClosed and a
\* connection error that is returned is cleared (conn.readErr)
readErr(b, i) ==
    LET s == b.ss[i]
        c == b.cn[s.e]
    IN [b EXCEPT !.r = readErrVal(c, s),
                 !.ss[i].seen = IF @ = "none" THEN readErrVal(c, s) ELSE @,
                 !.ss[i].late = IF s.seen = "none" THEN @ ELSE readErrVal(c, s),
                 !.ss[i].err = "SessionClosed",
                 !.cn[s.e].err = IF s.err = "nil" THEN "nil" ELSE @]

\* the caller's operation returns r; h is the handle it returns (0: none)
Return(b, i, r, h) ==
    [b EXCEPT !.cl = [@ EXCEPT !.pc = "idle", !.res = r, !.s = 0, !.last = i,
                               !.h = h, !.rep = b.ss[i].rep, !.k = 0, !.cached = FALSE]]

\* an operation that returns r without closing its session
ReturnUnclosed(b, i, r, nilp) == Return(b, i, r, 0)

\* session.close() is entered (ClientSession.Close and ServerSession.close set
\* p to nil first); r is what the operation returns once it is closed
EnterClose(b, i, r, nilp) ==
    [b EXCEPT !.ss[i].pc = "closing", !.ss[i].ret = r,
              !.ss[i].p = IF nilp THEN NilP ELSE @]

\* what the public operation does with the result r of sendRequest:
\*   startSession, SendAcctRequest, SendAuthorRequest: close the session;
\*   SendAuthenStart: close it when the call failed or the reply is the last one;
\*   Continue: Close() on an error or a last reply;
\*   Abort: Close(), and Continue's guard returns "too many packets"
ClientCont(b0, i, r) ==
    LET s == b0.ss[i]
        b == [b0 EXCEPT !.ss[i].serr = r]
    IN
    CASE s.op \in {"Acct", "Author"} -> EnterClose(b, i, r, FALSE)
      [] s.op = "Authen" ->
            IF r = "ok" /\ ~last(s.rep) THEN Return([b EXCEPT !.ss[i].pc = "open"], i, "ok", i)
            ELSE EnterClose(b, i, r, FALSE)
      [] s.op = "Continue" ->
            IF r = "ok" /\ ~last(s.rep) THEN Return([b EXCEPT !.ss[i].pc = "open"], i, "ok", i)
            ELSE EnterClose(b, i, r, TRUE)
      [] s.op = "Abort" -> EnterClose(b, i, r, TRUE)
      [] s.op = "GuardAbort" -> EnterClose(b, i, "TooMany", TRUE)
      [] OTHER -> EnterClose(b, i, "ok", TRUE)

\* the reply sendRequest decodes, by operation
WantKind(op) ==
    CASE op = "Acct" -> "AcctReply"
      [] op = "Author" -> "AuthorResponse"
      [] OTHER -> "AuthenReply"

\* a sendRequest that does not read the reply
WriteResultNoRead(b, i, r) == ClientCont(b, i, r)

\* ClientSession.sendRequest after writePacket returned r: an error, or a
\* request without reply (Abort), ends the request; otherwise the reply is read
ClientWriteResult(b, i, r) ==
    IF r = "ok" /\ b.ss[i].op \in {"Acct", "Author", "Authen", "Continue"}
    THEN [b EXCEPT !.ss[i].pc = "rwait"]
    ELSE ClientCont(b, i, r)

\* ClientSession.sendRequest after readPacket returned (q, r): c.p = q, and a
\* packet that passed the checks is decoded
ClientReadResult(b, i, q, r) ==
    LET b1 == [b EXCEPT !.ss[i].p = IF q = NilP THEN NilP ELSE HdrOf(q)]
        u == IF r = "ok" THEN Unmarshal(q, cfg["C"].key, WantKind(b.ss[i].op)) ELSE r
        b2 == IF u = "ok" THEN [b1 EXCEPT !.ss[i].rep = q.status] ELSE b1
    IN ClientCont(b2, i, u)

\* session.writePacket up to its blocking select: a closed session returns
\* readErr; otherwise the header's sequence number is incremented, s.seq set and
\* the request left for the writer.  body = [kind, status, abort, msg].
writePacket(b, i, h, body) ==
    LET s == b.ss[i]
        h1 == [h EXCEPT !.seq = Inc8(h.seq)]
    IN IF s.done THEN readErr(b, i)
       ELSE [b EXCEPT !.r = "pending",
                      !.ss[i].seq = h1.seq,
                      !.ss[i].p = h1,
                      !.ss[i].nwr = @ + 1,
                      !.ss[i].ab = @ \/ body.abort,
                      !.ss[i].nab = IF s.ab THEN @ + 1 ELSE @,
                      !.ss[i].ev = [kind |-> "w", seq |-> h1.seq, sent |-> s.seq,
                                    recv |-> s.lastr],
                      !.ss[i].pc = "wsend",
                      !.cn[s.e].prep = Append(@, i),
                      !.ss[i].wr = Pkt(h1, body.kind, body.status, body.abort, body.msg,
                                       cfg[s.e[2]].key, s.e[2])]

Body(kind, status, abort, msg) ==
    [kind |-> kind, status |-> status, abort |-> abort, msg |-> msg]

\* ClientSession.sendRequest up to the blocking select of writePacket
sendRequest(b, i, body) ==
    IF b.ss[i].p = NilP THEN ClientCont(b, i, "SessionClosed")
    ELSE LET b1 == writePacket(b, i, b.ss[i].p, body)
         IN IF b1.r = "pending" THEN b1 ELSE ClientCont(b1, i, b1.r)

\* The action and authen_type bytes of an AuthenStart.  A packet of the
\* network model names the pair in its msg field: "" is a LOGIN with type
\* ASCII, "pap" a LOGIN with type PAP, "a4t3" action 4 with type 3; the
\* table holds every pair of an action in 0..5 and a type in 0..6.
StartTable ==
    {<<"", 1, 1>>,
       <<"pap", 1, 2>>,
       <<"a0t0", 0, 0>>,
       <<"a0t1", 0, 1>>,
       <<"a0t2", 0, 2>>,
       <<"a0t3", 0, 3>>,
       <<"a0t4", 0, 4>>,
       <<"a0t5", 0, 5>>,
       <<"a0t6", 0, 6>>,
       <<"a1t0", 1, 0>>,
       <<"a1t1", 1, 1>>,
       <<"a1t2", 1, 2>>,
       <<"a1t3", 1, 3>>,
       <<"a1t4", 1, 4>>,
       <<"a1t5", 1, 5>>,
       <<"a1t6", 1, 6>>,
       <<"a2t0", 2, 0>>,
       <<"a2t1", 2, 1>>,
       <<"a2t2", 2, 2>>,
       <<"a2t3", 2, 3>>,
       <<"a2t4", 2, 4>>,
       <<"a2t5", 2, 5>>,
       <<"a2t6", 2, 6>>,
       <<"a3t0", 3, 0>>,
       <<"a3t1", 3, 1>>,
       <<"a3t2", 3, 2>>,
       <<"a3t3", 3, 3>>,
       <<"a3t4", 3, 4>>,
       <<"a3t5", 3, 5>>,
       <<"a3t6", 3, 6>>,
       <<"a4t0", 4, 0>>,
       <<"a4t1", 4, 1>>,
       <<"a4t2", 4, 2>>,
       <<"a4t3", 4, 3>>,
       <<"a4t4", 4, 4>>,
       <<"a4t5", 4, 5>>,
       <<"a4t6", 4, 6>>,
       <<"a5t0", 5, 0>>,
       <<"a5t1", 5, 1>>,
       <<"a5t2", 5, 2>>,
       <<"a5t3", 5, 3>>,
       <<"a5t4", 5, 4>>,
       <<"a5t5", 5, 5>>,
       <<"a5t6", 5, 6>>}
StartNames == {r[1] : r \in StartTable}
StartFields(msg) ==
    LET r == CHOOSE x \in StartTable : x[1] = msg
    IN [Action |-> r[2], AuthenType |-> r[3]]

\* a version that is minor-one for every LOGIN and SEND_AUTH but ASCII
startVersionAnyType(a) ==
    IF a.Action \in {AuthenActionLogin, AuthenActionSendAuth}
       /\ a.AuthenType \in {AuthenTypePAP, AuthenTypeCHAP, AuthenTypeARAP, AuthenTypeMSCHAP}
    THEN verDefaultMinorOne ELSE verDefault

\* AuthenStart.version: the switch on a.Action and a.AuthenType
startVersion(a) ==
    CASE a.Action = AuthenActionLogin ->
            IF a.AuthenType \in {AuthenTypePAP, AuthenTypeCHAP, AuthenTypeARAP,
                                 AuthenTypeMSCHAP}
            THEN verDefaultMinorOne ELSE verDefault
      [] a.Action = AuthenActionSendAuth ->
            IF a.AuthenType \in {AuthenTypePAP, AuthenTypeCHAP, AuthenTypeMSCHAP}
            THEN verDefaultMinorOne ELSE verDefault
      [] OTHER -> verDefault

\* the minor version a request must carry: as.version() for an AuthenStart
\* (handleAuthenStart, Client.SendAuthenStart), the default for every other
\* request (handleAuthorRequest, handleAcctRequest, Client.Send...Request)
version(q) ==
    IF q.kind = "AuthenStart" THEN startVersion(StartFields(q.msg)) ELSE verDefault

\* the request packet of a starting operation
StartBody(op, m) ==
    CASE op = "Acct" -> Body("AcctRequest", 0, FALSE, "")
      [] op = "Author" -> Body("AuthorRequest", 0, FALSE, "")
      [] OTHER -> Body("AuthenStart", 0, FALSE, m)

StartType(op) ==
    CASE op = "Acct" -> sessTypeAcct
      [] op = "Author" -> sessTypeAuthor
      [] OTHER -> sessTypeAuthen

\* Client.startSession once newSession returned session i: the header is built
\* (the single-connection flag when Mux is set and LegacyMux is not) and the
\* request sent
startSession(b, i, op, m) ==
    LET s == b.ss[i]
        fl == IF cfg["C"].Mux /\ ~cfg["C"].LegacyMux THEN hdrFlagSingleConnect ELSE 0
        h == Hdr(version(StartBody(op, m)), StartType(op), 0, fl, s.id)
        b1 == [b EXCEPT !.ss[i].p = h, !.ss[i].op = op, !.cl.pc = "insess", !.cl.s = i]
    IN sendRequest(b1, i, StartBody(op, m))

\* ------------------------------------------------------------ server dispatch
\* p[hdrFlags] &= hdrFlagSingleConnect
AndFlag(f) == ((f \div hdrFlagSingleConnect) % 2) * hdrFlagSingleConnect

\* a server that clears the flags of every first reply
srvWriteClearsFlags(b, i, h, body) == writePacket(b, i, [h EXCEPT !.flags = 0], body)

\* ServerSession.writePacket: on the first reply of a session (the request's
\* sequence number is 1) the flag is kept when Mux or LegacyMux is set and all
\* flags are cleared otherwise; then session.writePacket
srvWritePacket(b, i, h, body) ==
    LET h1 == IF h.seq = 1
              THEN [h EXCEPT !.flags = IF cfg["S"].Mux \/ cfg["S"].LegacyMux
                                       THEN AndFlag(h.flags) ELSE 0]
              ELSE h
    IN writePacket(b, i, h1, body)

\* the server task's session is closed (ServerSession.close) and the task ends
SrvEnd(b, i) == EnterClose(b, i, "end", TRUE)

\* what the server task does with the result r of a write, by the write's
\* purpose op: serveSession's reply ("final") and sendError's ("error") are
\* followed by the close; sendReply's prompt ("prompt") by the read of the
\* client's continue, or, when the write failed, by the return of the error
\* to the handler: a handler that answers errors (AuthenStatusError is among
\* env.finals) returns a reply, which serveSession writes; any other handler
\* returns nil and the session is closed
SrvWriteResult(b, i, r) ==
    IF b.ss[i].op = "prompt" /\ r = "ok"
    THEN [b EXCEPT !.ss[i].pc = "hcread"]
    ELSE IF b.ss[i].op = "prompt" /\ AuthenStatusError \in env.finals
    THEN [b EXCEPT !.ss[i].pc = "hfinal"]
    ELSE SrvEnd(b, i)

SrvWrite(b, i, body, op) ==
    LET b1 == srvWritePacket([b EXCEPT !.ss[i].op = op], i, b.ss[i].p, body)
    IN IF b1.r = "pending" THEN b1 ELSE SrvWriteResult(b1, i, b1.r)

\* the reply ServerSession.sendError marshals, by the header's type
ErrBody(typ) ==
    CASE typ = sessTypeAuthen -> Body("AuthenReply", AuthenStatusError, FALSE, "err")
      [] typ = sessTypeAuthor -> Body("AuthorResponse", AuthorStatusError, FALSE, "err")
      [] typ = sessTypeAcct -> Body("AcctReply", AcctStatusError, FALSE, "err")
      [] OTHER -> Body("Empty", 0, FALSE, "")

\* ServerSession.sendError: nothing when s.p is nil, else the error reply is
\* written and the session closed
sendError(b, i) ==
    IF b.ss[i].p = NilP THEN SrvEnd(b, i)
    ELSE SrvWrite(b, i, ErrBody(b.ss[i].p.typ), "error")

\* the reply of a RequestHandler method, by the header's type
ReplyKind(typ) ==
    CASE typ = sessTypeAuthen -> "AuthenReply"
      [] typ = sessTypeAuthor -> "AuthorResponse"
      [] OTHER -> "AcctReply"

\* a dispatch that answers a nil reply with an empty reply packet
SrvHandleNilReplies(b, i, ch) ==
    LET s == b.ss[i] IN
    IF s.p = NilP THEN SrvEnd(b, i)
    ELSE SrvWrite(b, i, Body(ReplyKind(s.p.typ), ch.st, FALSE, ""),
                  IF ch.k = "nil" THEN "nil" ELSE "final")

\* The RequestHandler's decision ch = [k, st]: it returns nil (k = "nil"),
\* returns a reply with status st (k = "final"), or, in HandleAuthenStart,
\* prompts the client through ServerSession.sendReply (k = "prompt").
SrvHandle(b, i, ch) ==
    LET s == b.ss[i] IN
    CASE ch.k = "nil" -> SrvEnd([b EXCEPT !.ss[i].op = "nil"], i)
      [] ch.k = "final" -> SrvWrite(b, i, Body(ReplyKind(s.p.typ), ch.st, FALSE, ""), "final")
      [] OTHER ->
            IF s.p = NilP THEN SrvEnd(b, i)
            ELSE SrvWrite([b EXCEPT !.ss[i].rounds = @ + 1], i,
                          Body("AuthenReply", ch.st, FALSE, "prompt"), "prompt")

\* a server that hands serveSession's own context to the handlers
handlerCtxBackground(typ) == "bg"

\* the context serveSession and handleAuthenStart call the handler with:
\* s.context() for each of the three session types
handlerCtx(typ) == "sess"

\* the request a session type carries and the version it must have
RequestKind(typ) ==
    CASE typ = sessTypeAuthen -> "AuthenStart"
      [] typ = sessTypeAuthor -> "AuthorRequest"
      [] OTHER -> "AcctRequest"

\* ServerConnHandler.serveSession after its readPacket returned (q, r): a read
\* error is answered by sendError; the packet is decoded by its type, its
\* version checked (handleAuthenStart, handleAuthorRequest, handleAcctRequest)
\* and the handler called
serveSession(b, i, q, r, ch) ==
    LET b1 == [b EXCEPT !.ss[i].p = IF q = NilP THEN NilP ELSE HdrOf(q)] IN
    IF r # "ok" THEN sendError(b1, i)
    ELSE IF q.typ \notin {sessTypeAuthen, sessTypeAuthor, sessTypeAcct} THEN sendError(b1, i)
    ELSE IF Unmarshal(q, cfg["S"].key, RequestKind(q.typ)) # "ok" THEN sendError(b1, i)
    ELSE IF q.ver # version(q) THEN sendError([b1 EXCEPT !.ss[i].p.ver = version(q)], i)
    ELSE SrvHandle([b1 EXCEPT !.ss[i].hctx = handlerCtx(q.typ)], i, ch)

\* ServerSession.sendReply after its readPacket returned (q, r): s.p = q; an
\* error or an undecodable continue is answered by sendError and returned to
\* the handler, which gives up; a decoded continue is returned to the handler
sendReply(b, i, q, r, ch) ==
    LET b1 == [b EXCEPT !.ss[i].p = IF q = NilP THEN NilP ELSE HdrOf(q)] IN
    IF r # "ok" THEN sendError(b1, i)
    ELSE IF Unmarshal(q, cfg["S"].key, "AuthenContinue") # "ok" THEN sendError(b1, i)
    ELSE SrvHandle(b1, i, ch)

\* session.readPacket once its select has a packet or a closed channel: the
\* packet q and the result r of the checks
readPacket(b, i) ==
    LET s == b.ss[i] IN
    IF s.inq # <<>>
    THEN LET q == Head(s.inq)
             r == SeqCheck(s, q)
         IN [b EXCEPT !.r = r, !.q = q,
                      !.ss[i].inq = Tail(@),
                      !.ss[i].nrd = @ + 1,
                      !.ss[i].rerr = r,
                      !.ss[i].lastr = IF r = "ok" THEN q.seq ELSE @,
                      !.ss[i].ab = @ \/ (r = "ok" /\ q.abort /\ q.key = cfg[s.e[2]].key),
                      !.ss[i].ev = IF r = "ok"
                                   THEN [kind |-> "r", seq |-> q.seq, sent |-> s.seq,
                                         recv |-> s.lastr]
                                   ELSE @]
    ELSE [readErr(b, i) EXCEPT !.q = NilP]

\* ------------------------------------------------------------ the caller
Commit(b) == sess' = b.ss /\ conn' = b.cn /\ cl' = b.cl

Undialed == {k \in Conns : conn[<<k, "C">>].arb = "none"}


\* an operation that never got a session returns r
ReturnNoSess(c, r) ==
    [c EXCEPT !.pc = "idle", !.res = r, !.s = 0, !.last = 0, !.h = 0, !.rep = 0,
              !.k = 0, !.cached = FALSE]

\* A session is garbage once its task has ended and no handle refers to it: a
\* server session whose task returned, a client session that was closed
\* inside the operation that started it.  Nothing reads its fields again, and
\* its id only while it is in the table of a connection that still serves.
Garbage(s) ==
    \/ s.pc = "end" /\ s.e[2] = "S"
    \/ s.pc = "closed" /\ s.op \in {"Acct", "Author", "Authen"}

Collected(c, ss, i) ==
    LET s == ss[i] IN
    IF ~Garbage(s) THEN s
    ELSE [newSession(s.e, IF i \in c[s.e].tbl /\ c[s.e].arb = "serve"
                          THEN s.id ELSE 0, s.pc)
          EXCEPT !.done = s.done, !.inClosed = s.inClosed, !.err = s.err, !.op = "gone"]

\* SendAcctRequest, SendAuthorRequest or SendAuthenStart is called:
\* Client.newSession reads the cached connection and asks it for a session,
\* or dials
StartOp(op) ==
    /\ cl.pc = "idle" /\ cnt.ops < env.ops
    /\ op \in env.startOps
    /\ cnt' = [cnt EXCEPT !.ops = @ + 1]
    /\ ctx' = "live"
    /\ cl' = IF (cfg["C"].Mux \/ cfg["C"].LegacyMux) /\ cache # 0
             THEN [cl EXCEPT !.pc = "ncs", !.op = op, !.k = cache, !.cached = TRUE]
             ELSE [cl EXCEPT !.pc = "dial", !.op = op, !.k = 0, !.cached = FALSE]
    /\ sess' = [i \in 1..Len(sess) |-> Collected(conn, sess, i)]
    /\ UNCHANGED <<env, cfg, codec, conn, wire, cache, bg>>

\* Client.dial, newConn and go conn.serve(); the server accepts and serves the
\* connection.  Dialing with a context that is done fails.
Dial ==
    /\ cl.pc = "dial"
    /\ IF ctx = "done"
       THEN /\ cl' = ReturnNoSess(cl, "ctx")
            /\ UNCHANGED conn
       ELSE /\ Undialed # {}
            /\ LET k == CHOOSE x \in Undialed : \A y \in Undialed : x <= y IN
               /\ conn' = [conn EXCEPT ![<<k, "C">>] = newConn("C"),
                                       ![<<k, "S">>] = newConn("S")]
               /\ cl' = [cl EXCEPT !.pc = "ncs", !.k = k, !.cached = FALSE]
    /\ UNCHANGED <<env, cfg, codec, wire, sess, cache, bg, ctx, cnt>>

\* conn.newClientSession gives up: on the cached connection Client.newSession
\* goes on to dial; on a new connection it closes the connection and returns r
NcsFail(r) ==
    IF cl.cached
    THEN /\ cl' = [cl EXCEPT !.pc = "dial"]
         /\ conn' = [conn EXCEPT ![<<cl.k, "C">>].err = "nil"]
    ELSE /\ cl' = ReturnNoSess(cl, r)
         /\ conn' = [conn EXCEPT ![<<cl.k, "C">>].done = TRUE,
                                 ![<<cl.k, "C">>].err = "nil"]

\* conn.newClientSession's select: case <-c.done
NcsDone ==
    /\ cl.pc = "ncs"
    /\ conn[<<cl.k, "C">>].done
    /\ NcsFail(IF conn[<<cl.k, "C">>].err # "nil" THEN conn[<<cl.k, "C">>].err
               ELSE "ConnectionClosed")
    /\ UNCHANGED <<env, cfg, codec, wire, sess, cache, bg, ctx, cnt>>

\* conn.newClientSession's select: case <-ctx.Done()
NcsCtx ==
    /\ cl.pc = "ncs"
    /\ ctx = "done"
    /\ IF cl.cached
       THEN cl' = [cl EXCEPT !.pc = "dial"] /\ UNCHANGED conn
       ELSE /\ cl' = ReturnNoSess(cl, "ctx")
            /\ conn' = [conn EXCEPT ![<<cl.k, "C">>].done = TRUE]
    /\ UNCHANGED <<env, cfg, codec, wire, sess, cache, bg, ctx, cnt>>

\* a Client that caches the connection it dialed last
cacheLatest(cch, k) == k

\* Client.newSession: if c.conn == nil { c.conn = conn }
cacheConn(cch, k) == IF cch = 0 THEN k ELSE cch

\* a verdict that does not look the id up in the table
newSessionErrAnyId(c, ss, id) ==
    IF ~c.mux /\ c.tbl # {} THEN "MuxUnsupported"
    ELSE IF c.tbl = {} /\ c.idleT # "nil" /\ StopFails(c) THEN "ConnectionClosed"
    ELSE "ok"

\* conn.newSession's verdict on a request for id
newSessionErr(c, ss, id) ==
    IF ~c.mux /\ c.tbl # {} THEN "MuxUnsupported"
    ELSE IF Lookup(c, ss, id) # 0 THEN "SessionIDInUse"
    ELSE IF c.tbl = {} /\ c.idleT # "nil" /\ StopFails(c) THEN "ConnectionClosed"
    ELSE "ok"

\* conn.newClientSession's select: case c.sessReq <- req, served by the
\* arbiter (conn.newSession).  An id in use is asked for again with another
\* id; a session that is created is cached or given a closer
\* (Client.newSession) and the request is sent on it (Client.startSession).
ArbNewSession(id) ==
    /\ cl.pc = "ncs"
    /\ id \in env.ids
    /\ LET e == <<cl.k, "C">>
           c == conn[e]
           v == newSessionErr(c, sess, id)
           i == Len(sess) + 1
       IN /\ c.arb = "serve" /\ c.qf = 0
          /\ CASE v = "SessionIDInUse" -> UNCHANGED <<conn, sess, cl, cache, bg, wire>>
               [] v \in {"MuxUnsupported", "ConnectionClosed"} ->
                     LET a == AfterEvent(conn, sess, e) IN
                     /\ IF cl.cached
                        THEN cl' = [cl EXCEPT !.pc = "dial"] /\ conn' = a.cn
                        ELSE /\ cl' = ReturnNoSess(cl, v)
                             /\ conn' = [a.cn EXCEPT ![e].done = TRUE]
                     /\ sess' = a.ss
                     /\ wire' = Flush(wire, a.cn)
                     /\ UNCHANGED <<cache, bg>>
               [] OTHER ->
                     /\ i <= MaxSess
                     /\ LET c1 == [c EXCEPT !.tbl = @ \cup {i},
                                            !.idleT = IF c.tbl = {} THEN Stopped(@) ELSE @]
                            b == [Bundle EXCEPT !.ss = Append(sess, newSession(e, id, "new")),
                                                !.cn[e] = c1]
                        IN \E m \in (IF cl.op = "Authen" THEN env.starts ELSE {""}) :
                              Commit(startSession(b, i, cl.op, m))
                     /\ UNCHANGED wire
                     /\ IF cl.cached \/ ~(cfg["C"].Mux \/ cfg["C"].LegacyMux)
                        THEN UNCHANGED <<cache, bg>>
                        ELSE /\ cache' = cacheConn(cache, cl.k)
                             /\ bg' = IF cache = 0
                                      THEN [bg EXCEPT !.clear = @ \cup {cl.k}]
                                      ELSE [bg EXCEPT !.close = @ \cup {<<i, cl.k>>}]
    /\ UNCHANGED <<env, cfg, codec, ctx, cnt>>

\* Client.newSession of a second task, run while the first task is inside an
\* operation: it reads the cached connection and asks it for a session
\* (conn.newClientSession, served by conn.newSession).  bg.other is the answer
\* it gets.  Its context is done by the time it is answered: refused, its
\* dial fails; given a session, its writePacket returns the context's error
\* and startSession closes the session.
OtherRequest(id) ==
    /\ cache # 0 /\ bg.other = "none" /\ cl.pc \notin {"idle", "ncs", "dial"}
    /\ id \in env.ids
    /\ LET e == <<cache, "C">>
           c == conn[e]
           v == newSessionErr(c, sess, id)
           i == Len(sess) + 1
       IN /\ c.arb = "serve" /\ c.qf = 0 /\ ~c.done
          /\ CASE v = "SessionIDInUse" -> UNCHANGED <<conn, sess, bg, wire>>
               [] v \in {"MuxUnsupported", "ConnectionClosed"} ->
                     LET a == AfterEvent(conn, sess, e) IN
                     /\ conn' = a.cn
                     /\ sess' = a.ss
                     /\ wire' = Flush(wire, a.cn)
                     /\ bg' = [bg EXCEPT !.other = v]
               [] OTHER ->
                     /\ i <= MaxSess
                     /\ conn' = [conn EXCEPT ![e].tbl = @ \cup {i},
                                             ![e].idleT = IF c.tbl = {} THEN Stopped(@) ELSE @]
                     /\ sess' = Append(sess, [newSession(e, id, "closing")
                                              EXCEPT !.op = "other", !.ret = "ContextCanceled"])
                     /\ bg' = [bg EXCEPT !.other = "ok"]
                     /\ UNCHANGED wire
    /\ UNCHANGED <<env, cfg, codec, cache, cl, ctx, cnt>>

\* a guard that never refuses, and one that refuses one Continue earlier
NeverTooMany(s) == FALSE
TooManyFrom252(s) == s.seq >= SeqGuard - 2

\* the guard of ClientSession.Continue: sequence number too large to continue
tooManyPackets(s) == s.seq >= SeqGuard

\* Continue, Abort or Close is called on the handle of session i: a handle
\* SendAuthenStart or Continue returned, or (env.reuse) one that Continue,
\* Abort or Close has closed, which the caller still holds
HandleOp(i, op) ==
    /\ cl.pc = "idle"
    /\ op \in env.handleOps
    /\ i \in 1..Len(sess) /\ sess[i].e[2] = "C"
    /\ \/ sess[i].pc = "open"
       \/ env.reuse /\ sess[i].pc = "closed" /\ sess[i].p = NilP
    /\ ctx' = "live"
    /\ LET b0 == [Bundle EXCEPT !.cl.pc = "insess", !.cl.s = i, !.cl.op = op] IN
       CASE op = "Continue" ->
              IF tooManyPackets(sess[i])
              THEN Commit(sendRequest([b0 EXCEPT !.ss[i].op = "GuardAbort"], i,
                                      Body("AuthenContinue", 0, TRUE, "")))
              ELSE Commit(sendRequest([b0 EXCEPT !.ss[i].op = "Continue"], i,
                                      Body("AuthenContinue", 0, FALSE, "msg")))
         [] op = "Abort" ->
              Commit(sendRequest([b0 EXCEPT !.ss[i].op = "Abort"], i,
                                 Body("AuthenContinue", 0, TRUE, "reason")))
         [] OTHER -> Commit(EnterClose([b0 EXCEPT !.ss[i].op = "Close"], i, "ok", TRUE))
    /\ UNCHANGED <<env, cfg, codec, wire, cache, bg, cnt>>

\* ------------------------------------------------------------ a session's task
IsSess(i) == i \in 1..Len(sess)
Side(i) == sess[i].e[2]
\* the context a blocking step of session i races: the caller's on the client,
\* context.Background() in serveSession and in the handlers modelled
CtxDone(i) == Side(i) = "C" /\ ctx = "done"

WriteResultOf(b, i, r) ==
    IF b.ss[i].e[2] = "C" THEN ClientWriteResult(b, i, r) ELSE SrvWriteResult(b, i, r)

\* conn.writeLoop has taken the request of session i from c.wc and writes it:
\* on a socket this end has closed the write fails, the error is the request's
\* result and the connection is closed (the writer returns); otherwise the
\* packet is on its way (lost when the peer has closed its socket) and the
\* result is nil
writeLoop(b, i) ==
    LET e == b.ss[i].e IN
    IF b.cn[e].nc = "closed"
    THEN [b EXCEPT !.r = "werr", !.cn[e].done = TRUE, !.cn[e].wl = FALSE, !.ss[i].wr = NilP,
                   !.cn[e].prep = Without(@, i)]
    ELSE [b EXCEPT !.r = "ok", !.ss[i].wr = NilP, !.ss[i].nsock = @ + 1,
                   !.cn[e].over = Head(b.cn[e].prep) # i,
                   !.cn[e].prep = Without(@, i)]

\* the socket after the write of packet w at end e
WrittenFirst(w, e) ==
    IF conn[e].nc = "open" /\ conn[Peer(e)].nc = "open"
    THEN [wire EXCEPT ![Peer(e)] = <<w>> \o @]
    ELSE wire

Written(w, e) ==
    IF conn[e].nc = "open" /\ conn[Peer(e)].nc = "open"
    THEN [wire EXCEPT ![Peer(e)] = Append(@, w)]
    ELSE wire

\* session.writePacket's selects: case s.c.wc <- wr, the writer's write, and
\* case err := <-wr.ec
\* conn.writeLoop when SetWriteDeadline or Write returns an error: the
\* request gets the error, the connection is closed, the writer returns
writeFailsQuietly(b, i) ==
    LET e == b.ss[i].e
    IN  [b EXCEPT !.r = "werr", !.cn[e].wl = FALSE, !.ss[i].wr = NilP,
                  !.cn[e].prep = Without(@, i)]

writeFails(b, i) ==
    LET e == b.ss[i].e
    IN  [b EXCEPT !.r = "werr", !.cn[e].done = TRUE, !.cn[e].wl = FALSE, !.ss[i].wr = NilP,
                  !.cn[e].prep = Without(@, i)]

\* the writer takes the request of session i and the write fails on a socket
\* that is open (the deadline has passed, the peer has reset the connection)
WriterFail(i) ==
    /\ IsSess(i) /\ sess[i].pc = "wsend"
    /\ conn[sess[i].e].wl /\ conn[sess[i].e].nc = "open"
    /\ LET b == writeFails(Bundle, i) IN Commit(WriteResultOf(b, i, b.r))
    /\ UNCHANGED <<env, cfg, codec, wire, cache, bg, ctx, cnt>>

\* conn.writeLoop's select: case <-c.done: the writer returns
WriterDone(e) ==
    /\ conn[e].wl /\ conn[e].done
    /\ conn' = [conn EXCEPT ![e].wl = FALSE]
    /\ UNCHANGED <<env, cfg, codec, wire, sess, cache, bg, cl, ctx, cnt>>

WriterWrite(i) ==
    /\ IsSess(i) /\ sess[i].pc = "wsend"
    /\ conn[sess[i].e].wl
    /\ LET b == writeLoop(Bundle, i) IN Commit(WriteResultOf(b, i, b.r))
    /\ wire' = Written(sess[i].wr, sess[i].e)
    /\ UNCHANGED <<env, cfg, codec, cache, bg, ctx, cnt>>

\* session.writePacket's first select: case <-s.done
WriteSessDone(i) ==
    /\ IsSess(i) /\ sess[i].pc = "wsend" /\ sess[i].done
    /\ LET b == readErr([Bundle EXCEPT !.ss[i].wr = NilP,
                                       !.cn[sess[i].e].prep = Without(@, i)], i)
       IN  Commit(WriteResultOf(b, i, b.r))
    /\ UNCHANGED <<env, cfg, codec, wire, cache, bg, ctx, cnt>>

\* session.writePacket's selects: case <-ctx.Done(), in the first select (the
\* request is not written) or in the second, the writer having taken the
\* request (it is written all the same)
WriteCtx(i, taken) ==
    /\ IsSess(i) /\ sess[i].pc = "wsend" /\ CtxDone(i)
    /\ IF taken
       THEN /\ conn[sess[i].e].wl
            /\ Commit(WriteResultOf(writeLoop(Bundle, i), i, "ctx"))
            /\ wire' = Written(sess[i].wr, sess[i].e)
       ELSE /\ Commit(WriteResultOf([Bundle EXCEPT !.ss[i].wr = NilP,
                                                   !.cn[sess[i].e].prep = Without(@, i)],
                                    i, "ctx"))
            /\ UNCHANGED wire
    /\ UNCHANGED <<env, cfg, codec, cache, bg, ctx, cnt>>

ReadReady(i) == sess[i].inq # <<>> \/ sess[i].inClosed

\* ClientSession.sendRequest reads the reply: session.readPacket's select has
\* a packet or finds the channel closed
ClientRead(i) ==
    /\ IsSess(i) /\ Side(i) = "C" /\ sess[i].pc = "rwait" /\ ReadReady(i)
    /\ LET b == readPacket(Bundle, i) IN Commit(ClientReadResult(b, i, b.q, b.r))
    /\ UNCHANGED <<env, cfg, codec, wire, cache, bg, ctx, cnt>>

\* session.readPacket's select: case <-ctx.Done()
ReadCtx(i) ==
    /\ IsSess(i) /\ sess[i].pc = "rwait" /\ CtxDone(i)
    /\ Commit(ClientReadResult(Bundle, i, NilP, "ctx"))
    /\ UNCHANGED <<env, cfg, codec, wire, cache, bg, ctx, cnt>>

\* what a RequestHandler may decide for a session of this type
HandlerChoices(s) ==
    (IF env.nil THEN {[k |-> "nil", st |-> 0]} ELSE {})
    \cup (IF s.p # NilP /\ s.p.typ = sessTypeAuthen
          THEN [k : {"final"}, st : env.finals]
               \cup (IF env.rounds < 0 \/ s.rounds < env.rounds
                     THEN [k : {"prompt"}, st : env.prompts] ELSE {})
          ELSE {[k |-> "final", st |-> AcctStatusSuccess]})

\* ServerConnHandler.serveSession reads the first packet of session i
SrvRead(i) ==
    /\ IsSess(i) /\ Side(i) = "S" /\ sess[i].pc = "hread" /\ ReadReady(i)
    /\ LET b == readPacket(Bundle, i)
           s1 == [b.ss[i] EXCEPT !.p = IF b.q = NilP THEN NilP ELSE HdrOf(b.q)]
       IN \E ch \in HandlerChoices(s1) : Commit(serveSession(b, i, b.q, b.r, ch))
    /\ UNCHANGED <<env, cfg, codec, wire, cache, bg, ctx, cnt>>

\* ServerSession.sendReply reads the client's continue
SrvContRead(i) ==
    /\ IsSess(i) /\ Side(i) = "S" /\ sess[i].pc = "hcread" /\ ReadReady(i)
    /\ LET b == readPacket(Bundle, i)
           s1 == [b.ss[i] EXCEPT !.p = IF b.q = NilP THEN NilP ELSE HdrOf(b.q)]
       IN \E ch \in HandlerChoices(s1) : Commit(sendReply(b, i, b.q, b.r, ch))
    /\ UNCHANGED <<env, cfg, codec, wire, cache, bg, ctx, cnt>>

\* HandleAuthenStart, its prompt having failed, returns an AuthenReply with
\* status Error and serveSession writes it
SrvFinal(i) ==
    /\ IsSess(i) /\ Side(i) = "S" /\ sess[i].pc = "hfinal"
    /\ Commit(SrvWrite(Bundle, i, Body("AuthenReply", AuthenStatusError, FALSE, ""), "final"))
    /\ UNCHANGED <<env, cfg, codec, wire, cache, bg, ctx, cnt>>

\* the handler task of a client connection (newConn): it reads one packet of a
\* session created for an inbound packet and logs the error
ClientStrayRead(i) ==
    /\ IsSess(i) /\ Side(i) = "C" /\ sess[i].pc = "cread" /\ ReadReady(i)
    /\ LET b == readPacket(Bundle, i) IN Commit([b EXCEPT !.ss[i].pc = "end"])
    /\ UNCHANGED <<env, cfg, codec, wire, cache, bg, ctx, cnt>>

\* session.close() has returned: the caller's operation returns, the server's
\* task ends
AfterClose(b, i) ==
    IF b.ss[i].op = "other" THEN [b EXCEPT !.ss[i].pc = "closed"]
    ELSE IF b.ss[i].e[2] = "C"
    THEN Return([b EXCEPT !.ss[i].pc = "closed"], i, b.ss[i].ret, 0)
    ELSE [b EXCEPT !.ss[i].pc = "end"]

\* session.close()'s select: case s.c.sessClose <- s, served by the arbiter
\* (conn.closeSession), after which <-s.done returns
ArbCloseSession(i) ==
    /\ IsSess(i) /\ sess[i].pc = "closing" /\ ~sess[i].done
    /\ LET e == sess[i].e
           c == conn[e]
       IN /\ c.arb = "serve" /\ c.qf = 0
          /\ LET a == AfterEvent([conn EXCEPT ![e] = closeSessionConn(c, i, e[2])],
                                 closeSessionSess(c, sess, i), e)
                 b == [Bundle EXCEPT !.ss = a.ss, !.cn = a.cn]
             IN Commit(AfterClose(b, i)) /\ wire' = Flush(wire, a.cn)
    /\ UNCHANGED <<env, cfg, codec, cache, bg, ctx, cnt>>

\* session.close()'s select takes case s.c.sessClose <- s although s.done is
\* closed already (both cases are ready): the arbiter serves the request,
\* conn.closeSession finds that s is not the session of the table and
\* returns, and <-s.done returns at once
ArbCloseStale(i) ==
    /\ IsSess(i) /\ sess[i].pc = "closing" /\ sess[i].done
    /\ LET e == sess[i].e
           c == conn[e]
       IN /\ c.arb = "serve" /\ c.qf = 0
          /\ LET a == AfterEvent([conn EXCEPT ![e] = [closeSessionConn(c, i, e[2])
                                                       EXCEPT !.stale = TRUE]],
                                 closeSessionSess(c, sess, i), e)
                 b == [Bundle EXCEPT !.ss = a.ss, !.cn = a.cn]
             IN Commit(AfterClose(b, i)) /\ wire' = Flush(wire, a.cn)
    /\ UNCHANGED <<env, cfg, codec, cache, bg, ctx, cnt>>

\* session.close()'s select: case <-s.done
CloseDone(i) ==
    /\ IsSess(i) /\ sess[i].pc = "closing" /\ sess[i].done
    /\ Commit(AfterClose(Bundle, i))
    /\ UNCHANGED <<env, cfg, codec, wire, cache, bg, ctx, cnt>>

\* ------------------------------------------------------------ a connection's tasks
\* a negotiation that is made again on every packet, pending or not
checkMuxAlways(c, q) == [c EXCEPT !.mux = AndFlag(q.flags) > 0, !.checkMux = FALSE]

\* conn.processPacket, "on first packet read get mux status": a pending
\* negotiation is settled by the single-connection flag of the packet
checkMux(c, q) ==
    IF c.checkMux
    THEN [c EXCEPT !.mux = AndFlag(q.flags) > 0, !.checkMux = FALSE]
    ELSE c

\* conn.processPacket
processPacket(c, ss, e, q) ==
    LET c1 == IF c.rx = "none"
              THEN [c EXCEPT !.rx = IF AndFlag(q.flags) > 0 THEN "flag" ELSE "noflag"]
              ELSE c
        c0 == checkMux(c1, q)
        i == Lookup(c0, ss, q.sid)
        j == Len(ss) + 1
    IN IF i = 0
       THEN IF c0.tbl = {} /\ c0.idleT # "nil" /\ StopFails(c0)
            THEN [cn |-> [c0 EXCEPT !.pk = "dropped"], ss |-> ss]
            ELSE [cn |-> [c0 EXCEPT !.tbl = @ \cup {j},
                                    !.pk = IF c0.tbl = {} THEN "new" ELSE "beside",
                                    !.idleT = IF c0.tbl = {} THEN Stopped(@) ELSE @],
                  ss |-> Append(ss, [newSession(e, q.sid, IF e[2] = "S" THEN "hread" ELSE "cread")
                                     EXCEPT !.inq = <<q>>])]
       ELSE IF ss[i].inq = <<>>
            THEN [cn |-> [c0 EXCEPT !.pk = "queued"], ss |-> [ss EXCEPT ![i].inq = <<q>>]]
            ELSE [cn |-> closeSessionConn([c0 EXCEPT !.pk = "full", !.qf = i], i, e[2]),
                  ss |-> closeSessionSess(c0, ss, i)]

\* conn.readLoop hands the next packet of the socket to the arbiter
\* (c.rc <- p), which runs conn.processPacket
ArbProcessPacket(e) ==
    /\ conn[e].arb = "serve" /\ conn[e].qf = 0 /\ conn[e].rl /\ conn[e].nc = "open"
    /\ wire[e] # <<>>
    /\ LET q == Head(wire[e])
           r == processPacket(conn[e], sess, e, q)
           a == IF r.cn.qf # 0 THEN [cn |-> [conn EXCEPT ![e] = r.cn], ss |-> r.ss]
                ELSE AfterEvent([conn EXCEPT ![e] = r.cn], r.ss, e)
       IN /\ Len(r.ss) <= MaxSess
          /\ sess' = a.ss
          /\ conn' = a.cn
          /\ wire' = Flush([wire EXCEPT ![e] = Tail(@)], a.cn)
    /\ UNCHANGED <<env, cfg, codec, cache, bg, cl, ctx, cnt>>

\* conn.readLoop reads EOF, the peer having closed its socket: conn.close()
\* (on a connection that is closed already the reader just returns)
ReaderEOF(e) ==
    /\ conn[e].rl /\ conn[e].nc = "open" /\ ~conn[e].done
    /\ wire[e] = <<>> /\ conn[Peer(e)].nc = "closed"
    /\ conn' = [conn EXCEPT ![e].rl = FALSE, ![e].done = TRUE]
    /\ UNCHANGED <<env, cfg, codec, wire, sess, cache, bg, cl, ctx, cnt>>

\* conn.processPacket after c.closeSession(s) for a full queue: the
\* statement s.setErr(errPacketQueueFull), then the end of the round of
\* conn.serve.  conn.qf is the session between the two statements (0: none);
\* the arbiter does nothing else in between, other tasks may.
ArbSetErr(e) ==
    /\ conn[e].arb = "serve" /\ conn[e].qf # 0
    /\ LET i == conn[e].qf
           a == AfterEvent([conn EXCEPT ![e].qf = 0],
                           [sess EXCEPT ![i].err = "PacketQueueFull"], e)
       IN /\ sess' = a.ss
          /\ conn' = a.cn
          /\ wire' = Flush(wire, a.cn)
    /\ UNCHANGED <<env, cfg, codec, cache, bg, cl, ctx, cnt>>

\* conn.serve's select: case <-c.done: the arbiter returns and its deferred
\* cleanup runs
ArbDone(e) ==
    /\ conn[e].arb = "serve" /\ conn[e].qf = 0 /\ conn[e].done
    /\ LET a == cleanup(conn, sess, e) IN
       /\ conn' = a.cn
       /\ sess' = a.ss
       /\ wire' = Flush(wire, a.cn)
    /\ UNCHANGED <<env, cfg, codec, cache, bg, cl, ctx, cnt>>

\* conn.cleanup statement by statement, the other tasks running in between.
\* ArbReturn: case <-c.done: return, and c.close(), the first statement of
\* the deferred cleanup (arb is "cleanup" while the rest is to do)
ArbReturn(e) ==
    /\ conn[e].arb = "serve" /\ conn[e].qf = 0 /\ conn[e].done
    /\ conn' = [conn EXCEPT ![e].arb = "cleanup", ![e].done = TRUE]
    /\ UNCHANGED <<env, cfg, codec, wire, sess, cache, bg, cl, ctx, cnt>>

\* one round of cleanup's loop over the table: close(s.done), close(s.in)
ArbCleanupSess(e, i) ==
    /\ conn[e].arb = "cleanup" /\ i \in conn[e].tbl /\ ~sess[i].done
    /\ sess' = [sess EXCEPT ![i].done = TRUE, ![i].inClosed = TRUE]
    /\ UNCHANGED <<env, cfg, codec, conn, wire, cache, bg, cl, ctx, cnt>>

\* the end of cleanup, the loop over the table done: c.nc.Close() and
\* c.idleT.Stop()
ArbCleanupEnd(e) ==
    /\ conn[e].arb = "cleanup" /\ \A i \in conn[e].tbl : sess[i].done
    /\ LET a == cleanup(conn, sess, e) IN
       /\ conn' = a.cn
       /\ sess' = a.ss
       /\ wire' = Flush(wire, a.cn)
    /\ UNCHANGED <<env, cfg, codec, cache, bg, cl, ctx, cnt>>

\* a clearing goroutine that does not wait for the connection to close
ClearerEarly(k) ==
    /\ k \in bg.clear
    /\ cache' = 0
    /\ bg' = [bg EXCEPT !.clear = @ \ {k}]
    /\ UNCHANGED <<env, cfg, codec, conn, wire, sess, cl, ctx, cnt>>

\* the goroutine of Client.newSession that clears the cache when the cached
\* connection closes
Clearer(k) ==
    /\ k \in bg.clear /\ conn[<<k, "C">>].done
    /\ cache' = 0
    /\ bg' = [bg EXCEPT !.clear = @ \ {k}]
    /\ UNCHANGED <<env, cfg, codec, conn, wire, sess, cl, ctx, cnt>>

\* Client.Close, called from any task: the cached connection, if any, is
\* closed (conn.close closes done once).  A Close that read c.conn before the
\* entry was cleared closes a connection whose done is closed already.
ClientClose ==
    /\ cache # 0 /\ ~conn[<<cache, "C">>].done
    /\ conn' = [conn EXCEPT ![<<cache, "C">>].done = TRUE]
    /\ UNCHANGED <<env, cfg, codec, wire, sess, cache, bg, cl, ctx, cnt>>

\* a goroutine that ends when the session closes and leaves the connection open
CloserForgets(i, k) ==
    /\ <<i, k>> \in bg.close /\ sess[i].done
    /\ bg' = [bg EXCEPT !.close = @ \ {<<i, k>>}]
    /\ UNCHANGED <<env, cfg, codec, conn, wire, sess, cache, cl, ctx, cnt>>

\* the goroutine of Client.newSession that closes a connection that was not
\* cached when its session closes
Closer(i, k) ==
    /\ <<i, k>> \in bg.close /\ sess[i].done
    /\ conn' = [conn EXCEPT ![<<k, "C">>].done = TRUE]
    /\ bg' = [bg EXCEPT !.close = @ \ {<<i, k>>}]
    /\ UNCHANGED <<env, cfg, codec, wire, sess, cache, cl, ctx, cnt>>

\* time passes on a connection whose idle timer is running
Tick(e) ==
    /\ conn[e].idleT = "armed" /\ conn[e].left > 0
    /\ conn' = [conn EXCEPT ![e].left = @ - 1,
                            ![e].idle = IF @ < cfg[e[2]].IdleTimeout THEN @ + 1 ELSE @]
    /\ UNCHANGED <<env, cfg, codec, wire, sess, cache, bg, cl, ctx, cnt>>

\* the idle timer expires: from now on Stop() returns false, and the timer's
\* function is started in its own goroutine
IdleFire(e) ==
    /\ conn[e].idleT = "armed" /\ conn[e].left = 0
    /\ conn' = [conn EXCEPT ![e].idleT = "fired"]
    /\ UNCHANGED <<env, cfg, codec, wire, sess, cache, bg, cl, ctx, cnt>>

\* the function of the idle timer, conn.close, runs
IdleClose(e) ==
    /\ conn[e].idleT = "fired"
    /\ conn' = [conn EXCEPT ![e].idleT = "ran", ![e].done = TRUE]
    /\ UNCHANGED <<env, cfg, codec, wire, sess, cache, bg, cl, ctx, cnt>>

\* the caller's context is cancelled or its deadline passes
CtxFire ==
    /\ ctx = "live" /\ cl.pc # "idle"
    /\ cnt.cancel < env.cancel
    /\ ctx' = "done"
    /\ cnt' = [cnt EXCEPT !.cancel = @ + 1]
    /\ UNCHANGED <<env, cfg, codec, conn, wire, sess, cache, bg, cl>>

\* ------------------------------------------------------------ a foreign peer
\* the socket of a peer that is not this package's Client
PeerSock == [NoConn EXCEPT !.arb = "peer", !.nc = "open"]

\* the packets a foreign peer may write: a first, second or third sequence
\* number, with the request of the header's type or a continue as the body;
\* an authentication start comes with or without the single-connection flag
PeerPackets ==
    {Pkt(Hdr(verDefault, typ, seq, hdrFlagSingleConnect, 1), kind, 0, FALSE, "", "k", "P") :
        typ \in {sessTypeAuthen, sessTypeAcct}, seq \in {1, 2, 3},
        kind \in {"AuthenStart", "AcctRequest", "AuthenContinue"}}
    \cup {Pkt(Hdr(verDefault, sessTypeAuthen, 1, 0, id), "AuthenStart", 0, FALSE, "", "k", "P") :
            id \in Ids}

\* the first packets of authentication sessions, with and without the
\* single-connection flag
PeerStarts ==
    {Pkt(Hdr(verDefault, sessTypeAuthen, 1, f, id), "AuthenStart", 0, FALSE, "", "k", "P") :
        f \in {0, hdrFlagSingleConnect}, id \in Ids}

\* first packets of every shape: each session type and a type that is none
\* of them, either minor version, the request of the type (plain or, an
\* AuthenStart, PAP) or a body that is no request of the type, sequence
\* number 1 or 2
FirstPackets ==
    UNION {{Pkt(Hdr(ver, typ, seq, 0, 1), kind, 0, FALSE, msg, "k", "P") :
                ver \in {verDefault, verDefaultMinorOne},
                seq \in {1, 2},
                kind \in {RequestKind(typ), "AuthenContinue"},
                msg \in IF typ = sessTypeAuthen THEN {"", "pap"} ELSE {""}} :
           typ \in {sessTypeAuthen, sessTypeAuthor, sessTypeAcct, 0}}

\* well-formed first packets of the three session types, an AuthenStart of
\* every action and type, each with either minor version
VerPackets ==
    UNION {{Pkt(Hdr(ver, typ, 1, 0, 1), RequestKind(typ), 0, FALSE, m, "k", "P") :
                ver \in {verDefault, verDefaultMinorOne},
                m \in IF typ = sessTypeAuthen THEN StartNames ELSE {""}} :
           typ \in {sessTypeAuthen, sessTypeAuthor, sessTypeAcct}}

\* a foreign peer connects and ServerConnHandler.Serve serves the connection
PeerDial ==
    /\ env.inject > 0
    /\ Undialed = Conns
    /\ conn' = [conn EXCEPT ![<<1, "C">>] = PeerSock, ![<<1, "S">>] = newConn("S")]
    /\ UNCHANGED <<env, cfg, codec, wire, sess, cache, bg, cl, ctx, cnt>>

\* the peer writes packet q to its socket
PeerWrite(q) ==
    /\ cnt.inject < env.inject
    /\ conn[<<1, "C">>].arb = "peer"
    /\ q \in env.pkts
    /\ cnt' = [cnt EXCEPT !.inject = @ + 1]
    /\ wire' = Written(q, <<1, "C">>)
    /\ UNCHANGED <<env, cfg, codec, conn, sess, cache, bg, cl, ctx>>

\* the peer holds one authentication dialog at a time: it writes an
\* AuthenStart, and then takes each reply off its socket and writes an
\* AuthenContinue numbered one more than the reply or, out of sequence, three
\* more
PeerDialog(stale) ==
    /\ cnt.inject < env.inject
    /\ conn[<<1, "C">>].arb = "peer" /\ conn[<<1, "C">>].nc = "open"
    /\ cnt' = [cnt EXCEPT !.inject = @ + 1]
    /\ IF cnt.inject = 0
       THEN /\ ~stale
            /\ wire' = Written(Pkt(Hdr(verDefault, sessTypeAuthen, 1, 0, 1),
                                   "AuthenStart", 0, FALSE, "", "k", "P"), <<1, "C">>)
       ELSE /\ wire[<<1, "C">>] # <<>>
            /\ LET r == Head(wire[<<1, "C">>])
                   seq == IF stale THEN Inc8(Inc8(Inc8(r.seq))) ELSE Inc8(r.seq)
                   w == Written(Pkt(Hdr(verDefault, sessTypeAuthen, seq, 0, r.sid),
                                    "AuthenContinue", 0, FALSE, "", "k", "P"), <<1, "C">>)
               IN wire' = [w EXCEPT ![<<1, "C">>] = Tail(@)]
    /\ UNCHANGED <<env, cfg, codec, conn, sess, cache, bg, cl, ctx>>

\* the peer closes its socket
PeerClose ==
    /\ conn[<<1, "C">>].arb = "peer" /\ conn[<<1, "C">>].nc = "open"
    /\ conn' = [conn EXCEPT ![<<1, "C">>].nc = "closed"]
    /\ UNCHANGED <<env, cfg, codec, wire, sess, cache, bg, cl, ctx, cnt>>

\* ------------------------------------------------------------ the codec
\* Byte strings are sequences of bytes.  A Go slice ([]byte, []string) is a
\* record [nil, v]: reflect.DeepEqual tells a nil slice from an empty one.
Chars == {0, 97}
StrUpTo(n) == UNION {[1..k -> Chars] : k \in 0..n}
Long(n) == [i \in 1..n |-> 97]
Slice(v) == [nil |-> FALSE, v |-> v]
NilSlice == [nil |-> TRUE, v |-> <<>>]

RECURSIVE SumLen(_)
SumLen(l) == IF l = <<>> THEN 0 ELSE Len(Head(l)) + SumLen(Tail(l))
RECURSIVE Flat(_)
Flat(l) == IF l = <<>> THEN <<>> ELSE Head(l) \o Flat(Tail(l))
Lens(l) == [i \in 1..Len(l) |-> Len(l[i]) % ByteMod]

\* the argument lists that take at most n bytes, one per argument and one per
\* byte of an argument
RECURSIVE ArgLists(_)
ArgLists(n) ==
    {<<>>} \cup
    (IF n = 0 THEN {}
     ELSE UNION {{<<s>> \o l : l \in ArgLists(n - 1 - Len(s))} : s \in StrUpTo(n - 1)})

\* the values of a field of type t ("s" string, "d" []byte, "a" []string)
\* that take at most n bytes, and the bytes a value takes
Choices(t, n) ==
    CASE t = "s" -> StrUpTo(n)
      [] t = "d" -> {NilSlice} \cup {Slice(s) : s \in StrUpTo(n)}
      [] t = "a" -> {NilSlice} \cup {Slice(l) : l \in ArgLists(n)}
Cost(t, v) ==
    CASE t = "s" -> Len(v)
      [] t = "d" -> Len(v.v)
      [] t = "a" -> Len(v.v) + SumLen(v.v)
\* the tuples of fields of the types ts that take at most n bytes together
RECURSIVE Fields(_, _)
Fields(ts, n) ==
    IF ts = <<>> THEN {<<>>}
    ELSE UNION {{<<v>> \o f : f \in Fields(Tail(ts), n - Cost(Head(ts), v))} :
                    v \in Choices(Head(ts), n)}

\* the one-byte fields of a packet: distinct values in every position
Scalars(k) == {[i \in 1..k |-> i], [i \in 1..k |-> ByteMod - i]}

\* the packet values: every field combination of at most MaxLen bytes, and
\* values with a field at and one byte over the limit of its length field
AuthenStarts ==
    {[kind |-> "AuthenStart", Action |-> n[1], PrivLvl |-> n[2], AuthenType |-> n[3],
      AuthenService |-> n[4], User |-> f[1], Port |-> f[2], RemAddr |-> f[3], Data |-> f[4]] :
        n \in Scalars(4),
        f \in Fields(<<"s", "s", "s", "d">>, MaxLen)
              \cup {<<Long(l), <<>>, <<97>>, NilSlice>> : l \in {maxUint8, maxUint8 + 1}}}
AuthenReplys ==
    {[kind |-> "AuthenReply", Status |-> n[1], NoEcho |-> e, ServerMsg |-> f[1], Data |-> f[2]] :
        n \in Scalars(1), e \in BOOLEAN,
        f \in Fields(<<"s", "d">>, MaxLen) \cup {<<Long(maxUint8 + 1), Slice(<<0>>)>>}}
AuthenContinues ==
    {[kind |-> "AuthenContinue", Abort |-> a, Message |-> f[1]] :
        a \in BOOLEAN, f \in Fields(<<"s">>, MaxLen) \cup {<<Long(maxUint8 + 1)>>}}
AuthorRequests ==
    {[kind |-> "AuthorRequest", AuthenMethod |-> n[1], PrivLvl |-> n[2], AuthenType |-> n[3],
      AuthenService |-> n[4], User |-> f[1], Port |-> f[2], RemAddr |-> f[3], Arg |-> f[4]] :
        n \in Scalars(4),
        f \in Fields(<<"s", "s", "s", "a">>, MaxLen)
              \cup {<<<<>>, <<97>>, <<>>, Slice(<<Long(l)>>)>> : l \in {maxUint8, maxUint8 + 1}}}
AuthorResponses ==
    {[kind |-> "AuthorResponse", Status |-> n[1], Arg |-> f[1], ServerMsg |-> f[2], Data |-> f[3]] :
        n \in Scalars(1),
        f \in Fields(<<"a", "s", "s">>, MaxLen) \cup {<<Slice(<<<<97>>>>), <<>>, Long(maxUint8 + 1)>>}}
AcctRequests ==
    {[kind |-> "AcctRequest", Flags |-> n[1], AuthenMethod |-> n[2], PrivLvl |-> n[3],
      AuthenType |-> n[4], AuthenService |-> n[5],
      User |-> f[1], Port |-> f[2], RemAddr |-> f[3], Arg |-> f[4]] :
        n \in Scalars(5),
        f \in Fields(<<"s", "s", "s", "a">>, MaxLen)
              \cup {<<<<>>, Long(l), <<>>, NilSlice>> : l \in {maxUint8, maxUint8 + 1}}}
AcctReplys ==
    {[kind |-> "AcctReply", Status |-> n[1], ServerMsg |-> f[1], Data |-> f[2]] :
        n \in Scalars(1), f \in Fields(<<"s", "s">>, MaxLen) \cup {<<Long(maxUint8 + 1), <<0>>>>}}

\* appendUint16 and readBuf.uint16: two big-endian lengths, one big-endian length
appendUint16(i, j) == <<(i \div ByteMod) % ByteMod, i % ByteMod, (j \div ByteMod) % ByteMod, j % ByteMod>>
uint16(b, at) == b[at] * ByteMod + b[at + 1]
\* readBuf.string / slice: the n bytes after the first at bytes
Take(b, at, n) == SubSeq(b, at + 1, at + n)
\* readBuf.bytes: a copy made with append([]byte(nil), ...), nil when n = 0
bytes(b, at, n) == IF n = 0 THEN NilSlice ELSE Slice(Take(b, at, n))
\* the loop over the argument lengths al: each argument is read from b after
\* at bytes; the packet is bad when fewer bytes than an argument's length are left
RECURSIVE readArgs(_, _, _)
readArgs(al, b, at) ==
    IF al = <<>> THEN [err |-> FALSE, v |-> <<>>]
    ELSE IF Len(b) - at < Head(al) THEN [err |-> TRUE, v |-> <<>>]
    ELSE LET r == readArgs(Tail(al), b, at + Head(al))
         IN  [err |-> r.err, v |-> <<Take(b, at, Head(al))>> \o r.v]

\* the two length fields of an AuthenContinue: the message of an abort goes
\* into the data field
continueLensMsgOnly(a) == appendUint16(Len(a.Message), 0)

continueLens(a) ==
    IF a.Abort THEN appendUint16(0, Len(a.Message)) ELSE appendUint16(Len(a.Message), 0)

\* packet.marshal of each kind: an error when a field is too large for its
\* length field, the body otherwise
TooLarge(x) ==
    CASE x.kind = "AuthenStart" ->
            \/ Len(x.User) > maxUint8 \/ Len(x.Port) > maxUint8
            \/ Len(x.RemAddr) > maxUint8 \/ Len(x.Data.v) > maxUint8
      [] x.kind = "AuthenReply" -> Len(x.ServerMsg) > maxUint16 \/ Len(x.Data.v) > maxUint16
      [] x.kind = "AuthenContinue" -> Len(x.Message) > maxUint16
      [] x.kind \in {"AuthorRequest", "AcctRequest"} ->
            \/ Len(x.User) > maxUint8 \/ Len(x.Port) > maxUint8
            \/ Len(x.RemAddr) > maxUint8 \/ Len(x.Arg.v) > maxUint8
            \/ \E i \in 1..Len(x.Arg.v) : Len(x.Arg.v[i]) > maxUint8
      [] x.kind = "AuthorResponse" ->
            \/ Len(x.Arg.v) > maxUint8 \/ Len(x.ServerMsg) > maxUint16
            \/ Len(x.Data) > maxUint16
            \/ \E i \in 1..Len(x.Arg.v) : Len(x.Arg.v[i]) > maxUint8
      [] x.kind = "AcctReply" -> Len(x.ServerMsg) > maxUint16 \/ Len(x.Data) > maxUint16
marshal(x) ==
    CASE x.kind = "AuthenStart" ->
            <<x.Action, x.PrivLvl, x.AuthenType, x.AuthenService,
              Len(x.User) % ByteMod, Len(x.Port) % ByteMod,
              Len(x.RemAddr) % ByteMod, Len(x.Data.v) % ByteMod>>
            \o x.User \o x.Port \o x.RemAddr \o x.Data.v
      [] x.kind = "AuthenReply" ->
            <<x.Status, IF x.NoEcho THEN authenReplyFlagNoEcho ELSE 0>>
            \o appendUint16(Len(x.ServerMsg), Len(x.Data.v)) \o x.ServerMsg \o x.Data.v
      [] x.kind = "AuthenContinue" ->
            continueLens(x) \o <<IF x.Abort THEN authenContinueFlagAbort ELSE 0>> \o x.Message
      [] x.kind = "AuthorRequest" ->
            <<x.AuthenMethod, x.PrivLvl, x.AuthenType, x.AuthenService,
              Len(x.User) % ByteMod, Len(x.Port) % ByteMod,
              Len(x.RemAddr) % ByteMod, Len(x.Arg.v) % ByteMod>>
            \o Lens(x.Arg.v) \o x.User \o x.Port \o x.RemAddr \o Flat(x.Arg.v)
      [] x.kind = "AuthorResponse" ->
            <<x.Status, Len(x.Arg.v) % ByteMod>>
            \o appendUint16(Len(x.ServerMsg), Len(x.Data))
            \o Lens(x.Arg.v) \o x.ServerMsg \o x.Data \o Flat(x.Arg.v)
      [] x.kind = "AcctRequest" ->
            <<x.Flags, x.AuthenMethod, x.PrivLvl, x.AuthenType, x.AuthenService,
              Len(x.User) % ByteMod, Len(x.Port) % ByteMod,
              Len(x.RemAddr) % ByteMod, Len(x.Arg.v) % ByteMod>>
            \o Lens(x.Arg.v) \o x.User \o x.Port \o x.RemAddr \o Flat(x.Arg.v)
      [] x.kind = "AcctReply" ->
            appendUint16(Len(x.ServerMsg), Len(x.Data)) \o <<x.Status>> \o x.ServerMsg \o x.Data

\* packet.unmarshal of each kind: errBadPacket when the buffer is shorter than
\* the fixed part or than the lengths it announces, the decoded value otherwise
Bad == [err |-> TRUE]
Decoded(v) == [err |-> FALSE, v |-> v]
unmarshal(kind, b) ==
    CASE kind = "AuthenStart" ->
            IF Len(b) < 8 THEN Bad
            ELSE LET ul == b[5]  pl == b[6]  rl == b[7]  dl == b[8]
                 IN  IF Len(b) - 8 < ul + pl + rl + dl THEN Bad
                     ELSE Decoded([kind |-> kind, Action |-> b[1], PrivLvl |-> b[2],
                                   AuthenType |-> b[3], AuthenService |-> b[4],
                                   User |-> Take(b, 8, ul), Port |-> Take(b, 8 + ul, pl),
                                   RemAddr |-> Take(b, 8 + ul + pl, rl),
                                   Data |-> bytes(b, 8 + ul + pl + rl, dl)])
      [] kind = "AuthenReply" ->
            IF Len(b) < 6 THEN Bad
            ELSE LET sl == uint16(b, 3)  dl == uint16(b, 5)
                 IN  IF Len(b) - 6 < sl + dl THEN Bad
                     ELSE Decoded([kind |-> kind, Status |-> b[1],
                                   NoEcho |-> b[2] % 2 = authenReplyFlagNoEcho,
                                   ServerMsg |-> Take(b, 6, sl), Data |-> bytes(b, 6 + sl, dl)])
      [] kind = "AuthenContinue" ->
            IF Len(b) < 5 THEN Bad
            ELSE LET ml == uint16(b, 1)  dl == uint16(b, 3)
                     abort == b[5] % 2 = authenContinueFlagAbort
                 IN  IF Len(b) - 5 < ml + dl THEN Bad
                     ELSE Decoded([kind |-> kind, Abort |-> abort,
                                   Message |-> IF abort THEN Take(b, 5 + ml, dl)
                                               ELSE Take(b, 5, ml)])
      [] kind = "AuthorRequest" ->
            IF Len(b) < 8 THEN Bad
            ELSE LET ul == b[5]  pl == b[6]  rl == b[7]  ac == b[8]
                 IN  IF Len(b) - 8 < ul + pl + rl + ac THEN Bad
                     ELSE LET args == readArgs(Take(b, 8, ac), b, 8 + ac + ul + pl + rl)
                          IN  IF args.err THEN Bad
                              ELSE Decoded([kind |-> kind, AuthenMethod |-> b[1], PrivLvl |-> b[2],
                                            AuthenType |-> b[3], AuthenService |-> b[4],
                                            User |-> Take(b, 8 + ac, ul),
                                            Port |-> Take(b, 8 + ac + ul, pl),
                                            RemAddr |-> Take(b, 8 + ac + ul + pl, rl),
                                            Arg |-> Slice(args.v)])
      [] kind = "AuthorResponse" ->
            IF Len(b) < 6 THEN Bad
            ELSE LET ac == b[2]  sl == uint16(b, 3)  dl == uint16(b, 5)
                 IN  IF Len(b) - 6 < ac + sl + dl THEN Bad
                     ELSE LET args == readArgs(Take(b, 6, ac), b, 6 + ac + sl + dl)
                          IN  IF args.err THEN Bad
                              ELSE Decoded([kind |-> kind, Status |-> b[1], Arg |-> Slice(args.v),
                                            ServerMsg |-> Take(b, 6 + ac, sl),
                                            Data |-> Take(b, 6 + ac + sl, dl)])
      [] kind = "AcctRequest" ->
            IF Len(b) < 9 THEN Bad
            ELSE LET ul == b[6]  pl == b[7]  rl == b[8]  ac == b[9]
                 IN  IF Len(b) - 9 < ul + pl + rl + ac THEN Bad
                     ELSE LET args == readArgs(Take(b, 9, ac), b, 9 + ac + ul + pl + rl)
                          IN  IF args.err THEN Bad
                              ELSE Decoded([kind |-> kind, Flags |-> b[1], AuthenMethod |-> b[2],
                                            PrivLvl |-> b[3], AuthenType |-> b[4],
                                            AuthenService |-> b[5],
                                            User |-> Take(b, 9 + ac, ul),
                                            Port |-> Take(b, 9 + ac + ul, pl),
                                            RemAddr |-> Take(b, 9 + ac + ul + pl, rl),
                                            Arg |-> Slice(args.v)])
      [] kind = "AcctReply" ->
            IF Len(b) < 5 THEN Bad
            ELSE LET sl == uint16(b, 1)  dl == uint16(b, 3)
                 IN  IF Len(b) - 5 < sl + dl THEN Bad
                     ELSE Decoded([kind |-> kind, Status |-> b[5],
                                   ServerMsg |-> Take(b, 5, sl), Data |-> Take(b, 5 + sl, dl)])

\* exclusive or of two bytes
RECURSIVE Xor(_, _)
Xor(a, b) ==
    IF a = 0 THEN b ELSE IF b = 0 THEN a
    ELSE ((a + b) % 2) + 2 * Xor(a \div 2, b \div 2)

\* the secrets "bad secret" and "shared secret" of TestEncryption, two session
\* ids, and the MD5 digests of session id, secret, version 0xc0 and sequence
\* number 1
BadSecret == <<98, 97, 100, 32, 115, 101, 99, 114, 101, 116>>
SharedSecret == <<115, 104, 97, 114, 101, 100, 32, 115, 101, 99, 114, 101, 116>>
SessionIds == {<<0, 0, 0, 1>>, <<1, 10, 23, 33>>}
md5Known ==
    {<<<<1, 10, 23, 33>> \o BadSecret \o <<192, 1>>,
       <<100, 7, 53, 236, 139, 81, 187, 134, 23, 8, 25, 50, 166, 11, 165, 144>>>>,
     <<<<1, 10, 23, 33>> \o SharedSecret \o <<192, 1>>,
       <<185, 171, 218, 20, 234, 81, 184, 134, 23, 84, 139, 160, 137, 142, 227, 178>>>>,
     <<<<0, 0, 0, 1>> \o BadSecret \o <<192, 1>>,
       <<174, 17, 70, 121, 213, 172, 83, 244, 164, 191, 247, 50, 207, 168, 29, 169>>>>,
     <<<<0, 0, 0, 1>> \o SharedSecret \o <<192, 1>>,
       <<207, 120, 65, 172, 2, 147, 45, 0, 55, 128, 87, 244, 131, 174, 154, 203>>>>}

\* md5.Sum stands outside the repository: the MD5 digest where it is
\* tabulated above, elsewhere a digest of md5Size bytes that is a function of
\* the bytes written and of nothing else
RECURSIVE mix(_, _, _)
mix(s, bs, i) == IF i > Len(bs) THEN s ELSE mix((s * 31 + bs[i] + 1) % 65521, bs, i + 1)
md5sum(bs) ==
    IF \E e \in md5Known : e[1] = bs THEN (CHOOSE e \in md5Known : e[1] = bs)[2]
    ELSE LET s == mix(7, bs, 1)
         IN  [i \in 1..md5Size |-> ((s * i) + (s \div 251) + (i * i)) % ByteMod]

\* the loop of crypt: each pad is the digest of buf and the previous pad (of
\* the previous output block when fb), cut to the length of the last block
RECURSIVE cryptBody(_, _, _, _)
cryptBody(buf, sum, body, fb) ==
    IF body = <<>> THEN <<>>
    ELSE LET full == md5sum(buf \o sum)
             n == IF Len(body) < Len(full) THEN Len(body) ELSE Len(full)
             out == [i \in 1..n |-> Xor(body[i], full[i])]
         IN  out \o cryptBody(buf, IF fb THEN out ELSE SubSeq(full, 1, n),
                              SubSeq(body, n + 1, Len(body)), fb)

\* the digest input of crypt: session id, secret, version, sequence number
cryptBuf(p, key) == SubSeq(p, 5, 8) \o key \o <<p[1], p[3]>>

cryptFeedback(p, key) ==
    SubSeq(p, 1, hdrLen) \o cryptBody(cryptBuf(p, key), <<>>, SubSeq(p, hdrLen + 1, Len(p)), TRUE)

\* crypt: the header stays, the body is xor-ed with the pads
crypt(p, key) ==
    SubSeq(p, 1, hdrLen) \o cryptBody(cryptBuf(p, key), <<>>, SubSeq(p, hdrLen + 1, Len(p)), FALSE)

\* binary.BigEndian.PutUint32
PutUint32(n) ==
    <<(n \div 16777216) % ByteMod, (n \div 65536) % ByteMod, (n \div ByteMod) % ByteMod, n % ByteMod>>
\* session.writePacket up to the write request: the sequence number is
\* incremented, the body size set, the body obfuscated
Sized(h, b) == [h EXCEPT ![3] = (@ + 1) % ByteMod] \o PutUint32(Len(b)) \o b

\* the packets of the codec: headers without the length, secrets, and bodies
\* that are no marshalled value, of no, one and several blocks
Headers ==
    {<<verDefault, sessTypeAuthen, 0, 0, 0, 0, 0, 1>>,
     <<verDefaultMinorOne, sessTypeAcct, 1, hdrFlagSingleConnect, 255, 254, 253, 252>>}
Keys == {<<>>, <<107, 1>>}
RawBodies ==
    {[i \in 1..n |-> (i * 37) % ByteMod] :
        n \in {0, 1, md5Size - 1, md5Size, md5Size + 1, 2 * md5Size + 1}}
\* accounting start requests of user "fred" on port "123"
StartRequests ==
    {[kind |-> "AcctRequest", Flags |-> 2, AuthenMethod |-> 1, PrivLvl |-> 1, AuthenType |-> 2,
      AuthenService |-> 3, User |-> <<102, 114, 101, 100>>, Port |-> <<49, 50, 51>>,
      RemAddr |-> <<>>, Arg |-> NilSlice]}
Values ==
    AuthenStarts \cup AuthenReplys \cup AuthenContinues \cup AuthorRequests
        \cup AuthorResponses \cup AcctRequests \cup AcctReplys

netVars == <<env, cfg, conn, wire, sess, cache, bg, cl, ctx, cnt>>

\* packet.marshal of the value
Marshal ==
    /\ codec.stage = "value"
    /\ codec' = IF TooLarge(codec.x) THEN [codec EXCEPT !.stage = "failed"]
                ELSE [codec EXCEPT !.stage = "marshalled", !.b = marshal(codec.x)]
    /\ UNCHANGED netVars

\* session.writePacket with the secret of the connection
WritePacket ==
    /\ codec.stage = "marshalled"
    /\ LET p == Sized(codec.hdr, codec.b)
       IN  codec' = [codec EXCEPT !.stage = "written", !.plain = p, !.w = crypt(p, codec.key)]
    /\ UNCHANGED netVars

\* the peer's session.readPacket with the secret of its connection, the
\* sequence number being the expected one
ReadPacket ==
    /\ codec.stage = "written"
    /\ codec' = [codec EXCEPT !.stage = "read", !.r = crypt(codec.w, codec.rkey)]
    /\ UNCHANGED netVars

\* packet.unmarshal of the marshalled body, or of the body of the packet read
Decode ==
    /\ codec.stage \in {"marshalled", "read"}
    /\ codec.x.kind # "raw"
    /\ codec' = [codec EXCEPT !.stage = "decoded", !.via = codec.stage,
                    !.y = unmarshal(codec.x.kind,
                                    IF codec.stage = "read"
                                    THEN SubSeq(codec.r, hdrLen + 1, Len(codec.r)) ELSE codec.b)]
    /\ UNCHANGED netVars

\* ------------------------------------------------------------ specifications
NoCaller == [pc |-> "idle", op |-> "none", k |-> 0, cached |-> FALSE, s |-> 0,
             res |-> "none", last |-> 0, h |-> 0, rep |-> 0]

Config(m, l, key) == [Mux |-> m, LegacyMux |-> l, IdleTimeout |-> 0, key |-> key]

InitNet(E, C, S) ==
    /\ env = E
    /\ cfg = [C |-> C, S |-> S]
    /\ conn = [e \in Ends |-> NoConn]
    /\ wire = [e \in Ends |-> <<>>]
    /\ sess = <<>>
    /\ cache = 0
    /\ bg = [clear |-> {}, close |-> {}, other |-> "none"]
    /\ cl = NoCaller
    /\ ctx = "none"
    /\ cnt = [ops |-> 0, cancel |-> 0, inject |-> 0]

InitWith(E, C, S) == InitNet(E, C, S) /\ codec = NoCodec

StartOps == {"Acct", "Author", "Authen"}
HandleOps == {"Continue", "Abort", "Close"}

\* Spec: one operation of a Client against a server, and the Continue, Abort
\* and Close calls on the handle it returns, for every setting of Mux on the
\* two ends; the handler answers, prompts or returns nil, and the caller's
\* context may fire
Init ==
    \E cm \in BOOLEAN, sm \in BOOLEAN :
        InitWith([starts |-> {""}, pkts |-> {}, ids |-> Ids, ops |-> 1, rounds |-> MaxRounds, cancel |-> MaxCancel, inject |-> 0, reuse |-> FALSE,
                  nil |-> TRUE, startOps |-> StartOps, handleOps |-> HandleOps,
                  finals |-> {AuthenStatusFail, AuthenStatusRestart},
                  prompts |-> {AuthenStatusGetData, AuthenStatusGetPass}],
                 Config(cm, FALSE, "k"), Config(sm, FALSE, "k"))

Next ==
    \/ \E op \in StartOps : StartOp(op)
    \/ Dial
    \/ NcsCtx
    \/ \E id \in Ids : ArbNewSession(id)
    \/ \E i \in 1..MaxSess, op \in HandleOps : HandleOp(i, op)
    \/ \E i \in 1..MaxSess : WriterWrite(i)
    \/ \E i \in 1..MaxSess : WriteSessDone(i)
    \/ \E i \in 1..MaxSess, taken \in BOOLEAN : WriteCtx(i, taken)
    \/ \E i \in 1..MaxSess : ClientRead(i)
    \/ \E i \in 1..MaxSess : ReadCtx(i)
    \/ \E i \in 1..MaxSess : SrvRead(i)
    \/ \E i \in 1..MaxSess : SrvContRead(i)
    \/ \E i \in 1..MaxSess : ClientStrayRead(i)
    \/ \E i \in 1..MaxSess : ArbCloseSession(i)
    \/ \E i \in 1..MaxSess : CloseDone(i)
    \/ \E e \in Ends : ArbProcessPacket(e)
    \/ \E e \in Ends : ReaderEOF(e)
    \/ \E e \in Ends : ArbDone(e)
    \/ \E k \in Conns : Clearer(k)
    \/ CtxFire

Spec == Init /\ [][Next]_vars

\* SpecSeq: one operation and the Continue and Abort calls on its handle, with
\* a handler that prompts without end, on two ends that both have Mux set or
\* both have it unset; the caller's context may fire
InitSeq ==
    \E m \in BOOLEAN :
        InitWith([starts |-> {""}, pkts |-> {}, ids |-> Ids, ops |-> 1, rounds |-> -1, cancel |-> MaxCancel, inject |-> 0, reuse |-> FALSE,
                  nil |-> FALSE, startOps |-> StartOps, handleOps |-> {"Continue", "Abort"},
                  finals |-> {}, prompts |-> {AuthenStatusGetUser}],
                 Config(m, FALSE, "k"), Config(m, FALSE, "k"))

SpecSeq == InitSeq /\ [][Next]_vars

\* SpecMux: MaxOps sequential operations of one Client, for every setting of
\* Mux on the two ends, against a handler that answers or prompts
InitMux ==
    \E cm \in BOOLEAN, sm \in BOOLEAN :
        InitWith([starts |-> {""}, pkts |-> {}, ids |-> Ids, ops |-> MaxOps, rounds |-> MaxRounds, cancel |-> 0, inject |-> 0, reuse |-> FALSE,
                  nil |-> FALSE, startOps |-> {"Authen", "Acct"}, handleOps |-> {},
                  finals |-> {AuthenStatusPass}, prompts |-> {AuthenStatusGetUser}],
                 Config(cm, FALSE, "k"), Config(sm, FALSE, "k"))

NextMux ==
    \/ \E op \in StartOps : StartOp(op)
    \/ Dial
    \/ NcsDone
    \/ \E id \in Ids : ArbNewSession(id)
    \/ \E i \in 1..MaxSess : WriterWrite(i)
    \/ \E i \in 1..MaxSess : ClientRead(i)
    \/ \E i \in 1..MaxSess : SrvRead(i)
    \/ \E i \in 1..MaxSess : ArbCloseSession(i)
    \/ \E i \in 1..MaxSess : CloseDone(i)
    \/ \E e \in Ends : ArbProcessPacket(e)
    \/ \E e \in Ends : ReaderEOF(e)
    \/ \E e \in Ends : ArbDone(e)
    \/ \E k \in Conns : Clearer(k)
    \/ \E i \in 1..MaxSess, k \in Conns : Closer(i, k)

SpecMux == InitMux /\ [][NextMux]_vars

\* SpecPeer: one server connection and a foreign peer that writes MaxInject
\* packets of its choice
InitPeer ==
    \E sm \in BOOLEAN :
        InitWith([starts |-> {""}, pkts |-> PeerPackets, ids |-> Ids, ops |-> 0, rounds |-> MaxRounds,
                  cancel |-> 0, inject |-> MaxInject, reuse |-> FALSE,
                  nil |-> TRUE, startOps |-> {}, handleOps |-> {},
                  finals |-> {AuthenStatusPass}, prompts |-> {AuthenStatusGetUser}],
                 Config(FALSE, FALSE, "k"), Config(sm, FALSE, "k"))

NextPeer ==
    \/ PeerDial
    \/ \E q \in PeerPackets \cup FirstPackets : PeerWrite(q)
    \/ PeerClose
    \/ \E i \in 1..MaxSess : WriterWrite(i)
    \/ \E i \in 1..MaxSess : WriteSessDone(i)
    \/ \E i \in 1..MaxSess : SrvRead(i)
    \/ \E i \in 1..MaxSess : SrvContRead(i)
    \/ \E i \in 1..MaxSess : ArbCloseSession(i)
    \/ \E i \in 1..MaxSess : CloseDone(i)
    \/ \E e \in Ends : ArbProcessPacket(e)
    \/ \E e \in Ends : ArbSetErr(e)
    \/ \E e \in Ends : ReaderEOF(e)
    \/ \E e \in Ends : ArbDone(e)

SpecPeer == InitPeer /\ [][NextPeer]_vars

\* SpecStarts: one server connection and a peer that starts MaxInject
\* authentication sessions on it
InitStarts ==
    \E sm \in BOOLEAN :
        InitWith([starts |-> {""}, pkts |-> PeerStarts, ids |-> Ids, ops |-> 0, rounds |-> MaxRounds,
                  cancel |-> 0, inject |-> MaxInject, reuse |-> FALSE,
                  nil |-> TRUE, startOps |-> {}, handleOps |-> {},
                  finals |-> {AuthenStatusPass}, prompts |-> {AuthenStatusGetUser}],
                 Config(FALSE, FALSE, "k"), Config(sm, FALSE, "k"))

SpecStarts == InitStarts /\ [][NextPeer]_vars

\* SpecRetry: the scenario of SpecStarts with a handler that prompts and,
\* when the prompt fails, answers with an error reply
InitRetry ==
    \E sm \in BOOLEAN :
        InitWith([starts |-> {""}, pkts |-> PeerStarts, ids |-> Ids, ops |-> 0, rounds |-> MaxRounds,
                  cancel |-> 0, inject |-> MaxInject, reuse |-> FALSE,
                  nil |-> FALSE, startOps |-> {}, handleOps |-> {},
                  finals |-> {AuthenStatusError}, prompts |-> {AuthenStatusGetUser}],
                 Config(FALSE, FALSE, "k"), Config(sm, FALSE, "k"))

NextRetry == NextPeer \/ \E i \in 1..MaxSess : SrvFinal(i)

SpecRetry == InitRetry /\ [][NextRetry]_vars

\* SpecVer: one request of a Client, an AuthenStart of any action and type
\* among them, against a server whose handler answers; and one server
\* connection with a peer that writes one well-formed first packet of either
\* minor version
InitVer ==
    \/ \E m \in BOOLEAN :
          InitWith([starts |-> StartNames, pkts |-> {}, ids |-> {1}, ops |-> 1, rounds |-> 0,
                    cancel |-> 0, inject |-> 0, reuse |-> FALSE,
                    nil |-> FALSE, startOps |-> StartOps, handleOps |-> {},
                    finals |-> {AuthenStatusPass}, prompts |-> {}],
                   Config(m, FALSE, "k"), Config(m, FALSE, "k"))
    \/ InitWith([starts |-> {""}, pkts |-> VerPackets, ids |-> Ids, ops |-> 0, rounds |-> 0,
                 cancel |-> 0, inject |-> 1, reuse |-> FALSE,
                 nil |-> FALSE, startOps |-> {}, handleOps |-> {},
                 finals |-> {AuthenStatusPass}, prompts |-> {}],
                Config(FALSE, FALSE, "k"), Config(FALSE, FALSE, "k"))

NextVer ==
    \/ \E op \in StartOps : StartOp(op)
    \/ Dial
    \/ \E id \in Ids : ArbNewSession(id)
    \/ PeerDial
    \/ \E q \in VerPackets : PeerWrite(q)
    \/ \E i \in 1..MaxSess : WriterWrite(i)
    \/ \E i \in 1..MaxSess : ClientRead(i)
    \/ \E i \in 1..MaxSess : SrvRead(i)
    \/ \E i \in 1..MaxSess : ArbCloseSession(i)
    \/ \E i \in 1..MaxSess : CloseDone(i)
    \/ \E e \in Ends : ArbProcessPacket(e)
    \/ \E e \in Ends : ReaderEOF(e)
    \/ \E e \in Ends : ArbDone(e)

SpecVer == InitVer /\ [][NextVer]_vars

\* SpecFirst: one server connection and a peer that writes first packets of
\* any shape, at most two
InitFirst ==
    \E sm \in BOOLEAN :
        InitWith([starts |-> {""}, pkts |-> FirstPackets, ids |-> Ids, ops |-> 0, rounds |-> MaxRounds,
                  cancel |-> 0, inject |-> 2, reuse |-> FALSE,
                  nil |-> TRUE, startOps |-> {}, handleOps |-> {},
                  finals |-> {AuthenStatusPass}, prompts |-> {AuthenStatusGetUser}],
                 Config(FALSE, FALSE, "k"), Config(sm, FALSE, "k"))

SpecFirst == InitFirst /\ [][NextPeer]_vars

\* SpecWrap: one server connection, a handler that prompts without end and a
\* peer that holds dialogs long enough for the sequence number to wrap
InitWrap ==
    InitWith([starts |-> {""}, pkts |-> {}, ids |-> Ids, ops |-> 0, rounds |-> -1,
              cancel |-> 0, inject |-> ByteMod \div 2 + 2, reuse |-> FALSE,
              nil |-> FALSE, startOps |-> {}, handleOps |-> {},
              finals |-> {}, prompts |-> {AuthenStatusGetUser}],
             Config(FALSE, FALSE, "k"), Config(FALSE, FALSE, "k"))

NextWrap ==
    \/ PeerDial
    \/ \E stale \in BOOLEAN : PeerDialog(stale)
    \/ \E i \in 1..MaxSess : WriterWrite(i)
    \/ \E i \in 1..MaxSess : SrvRead(i)
    \/ \E i \in 1..MaxSess : SrvContRead(i)
    \/ \E i \in 1..MaxSess : ArbCloseSession(i)
    \/ \E e \in Ends : ArbProcessPacket(e)

SpecWrap == InitWrap /\ [][NextWrap]_vars

\* SpecAbort: one SendAuthenStart and the Continue, Abort and Close calls on
\* its handle, also after the handle was closed, against a handler that
\* answers, prompts or returns nil whatever the continue it is given
InitAbort ==
    \E m \in BOOLEAN :
        InitWith([starts |-> {""}, pkts |-> {}, ids |-> Ids, ops |-> 1, rounds |-> MaxRounds, cancel |-> MaxCancel, inject |-> 0,
                  reuse |-> TRUE, nil |-> TRUE, startOps |-> {"Authen"},
                  handleOps |-> HandleOps,
                  finals |-> {AuthenStatusPass}, prompts |-> {AuthenStatusGetData}],
                 Config(m, FALSE, "k"), Config(m, FALSE, "k"))

SpecAbort == InitAbort /\ [][Next]_vars

\* SpecNeg: MaxOps sequential accounting requests of one Client, for every
\* setting of Mux and LegacyMux on the two ends; no two of the sessions are
\* open together, and the random source gives them one id
InitNeg ==
    \E cm \in BOOLEAN, cl0 \in BOOLEAN, sm \in BOOLEAN, sl \in BOOLEAN :
        InitWith([starts |-> {""}, pkts |-> {}, ids |-> {1}, ops |-> MaxOps, rounds |-> 0, cancel |-> 0, inject |-> 0,
                  reuse |-> FALSE, nil |-> FALSE, startOps |-> {"Acct"},
                  handleOps |-> {}, finals |-> {}, prompts |-> {}],
                 Config(cm, cl0, "k"), Config(sm, sl, "k"))

SpecNeg == InitNeg /\ [][NextMux]_vars

\* SpecRace: MaxOps accounting requests of one task of a Client, and one
\* request of a second task made while the first is inside a request, for
\* every setting of Mux and LegacyMux on the two ends
InitRace ==
    \E cm \in BOOLEAN, cl0 \in BOOLEAN, sm \in BOOLEAN, sl \in BOOLEAN :
        InitWith([starts |-> {""}, pkts |-> {}, ids |-> Ids, ops |-> MaxOps, rounds |-> 0, cancel |-> 0, inject |-> 0,
                  reuse |-> FALSE, nil |-> FALSE, startOps |-> {"Acct"},
                  handleOps |-> {}, finals |-> {}, prompts |-> {}],
                 Config(cm, cl0, "k"), Config(sm, sl, "k"))

SpecRace == InitRace /\ [][NextMux \/ \E id \in Ids : OtherRequest(id)]_vars

\* SpecTear: the requests of SpecMux and a Client.Close that is called while
\* the cached connection has more than one session, the cleanup of an arbiter
\* that returns because done is closed taken statement by statement
NextTear ==
    \/ \E op \in StartOps : StartOp(op)
    \/ Dial
    \/ NcsDone
    \/ \E id \in Ids : ArbNewSession(id)
    \/ \E i \in 1..MaxSess : WriterWrite(i)
    \/ \E i \in 1..MaxSess : ClientRead(i)
    \/ \E i \in 1..MaxSess : SrvRead(i)
    \/ \E i \in 1..MaxSess : ArbCloseSession(i)
    \/ \E i \in 1..MaxSess : CloseDone(i)
    \/ \E e \in Ends : ArbProcessPacket(e)
    \/ \E e \in Ends : ReaderEOF(e)
    \/ \E e \in Ends : ArbReturn(e)
    \/ \E e \in Ends, i \in 1..MaxSess : ArbCleanupSess(e, i)
    \/ \E e \in Ends : ArbCleanupEnd(e)
    \/ (cache # 0 /\ Cardinality(conn[<<cache, "C">>].tbl) > 1 /\ ClientClose)
    \/ \E k \in Conns : Clearer(k)
    \/ \E i \in 1..MaxSess, k \in Conns : Closer(i, k)

SpecTear == InitMux /\ [][NextTear]_vars

\* SpecCache: the requests of SpecNeg and Client.Close at any time; the
\* clearing goroutine, once the done channel it waits for is closed, runs
SpecCache ==
    /\ InitNeg /\ [][NextMux \/ ClientClose]_vars
    /\ WF_vars(\E k \in Conns : Clearer(k))

\* SpecIdle: MaxOps sequential accounting requests of one Client on two ends
\* that have Mux set, one of them with an idle timeout of TestIdleTimeout
\* ticks, their sessions given one id; timers and arbiters that can take a step do not all wait for ever
InitIdle ==
    \E ct \in {0, TestIdleTimeout} :
        InitWith([starts |-> {""}, pkts |-> {}, ids |-> {1}, ops |-> MaxOps, rounds |-> 0, cancel |-> 0, inject |-> 0,
                  reuse |-> FALSE, nil |-> FALSE, startOps |-> {"Acct"},
                  handleOps |-> {}, finals |-> {}, prompts |-> {}],
                 [Config(TRUE, FALSE, "k") EXCEPT !.IdleTimeout = ct],
                 [Config(TRUE, FALSE, "k") EXCEPT !.IdleTimeout = TestIdleTimeout - ct])

NextIdle ==
    \/ NextMux
    \/ \E e \in Ends : Tick(e)
    \/ \E e \in Ends : IdleFire(e)
    \/ \E e \in Ends : IdleClose(e)

\* a timer that runs expires, the function of an expired timer runs, and an
\* arbiter whose done channel is closed returns
TimerStep ==
    \E e \in Ends : Tick(e) \/ IdleFire(e) \/ IdleClose(e) \/ ArbDone(e)

FairIdle == WF_vars(TimerStep)

SpecIdle == InitIdle /\ [][NextIdle]_vars /\ FairIdle

\* SpecLeak: the operations of SpecMux and of SpecIdle; timers, arbiters and
\* the goroutines that wait for a session to close do not all wait for ever
InitLeak == InitMux \/ InitIdle

CloseStep == TimerStep \/ \E i \in 1..MaxSess, k \in Conns : Closer(i, k)

SpecLeak == InitLeak /\ [][NextIdle]_vars /\ WF_vars(CloseStep)

\* SpecCtx: the operations of Spec; an arbiter whose done channel is closed
\* returns
SpecCtx == Init /\ [][Next]_vars /\ WF_vars(\E e \in Ends : ArbDone(e))


\* SpecWrite: the scenarios of Spec and of SpecStarts with writes that fail;
\* the arbiter, once done is closed, runs cleanup, and a session waiting in
\* writePacket's select takes the case of its closed done channel
InitWrite == Init \/ InitStarts

NextWrite == Next \/ NextPeer \/ \E i \in 1..MaxSess : WriterFail(i)

SpecWrite ==
    InitWrite /\ [][NextWrite]_vars
         /\ WF_vars(\E e \in Ends : ArbDone(e))
         /\ WF_vars(\E i \in 1..MaxSess : WriteSessDone(i))

\* SpecDown: one accounting request of a Client, for every setting of Mux
\* and with an idle timeout on one end, or MaxOps of them on two ends that
\* multiplex, with the ways a done channel gets closed: Client.Close during
\* the one request, the idle timer, EOF, a write that fails, an empty table
\* without multiplexing.  A task whose select has a closed done channel among
\* its cases, or whose channel has been closed, does not wait for ever.
InitDown ==
    \E cm \in BOOLEAN, sm \in BOOLEAN, ct \in {0, TestIdleTimeout}, ops \in 1..MaxOps :
        /\ (ops > 1 => cm /\ sm /\ ct = 0)
        /\ InitWith([starts |-> {""}, pkts |-> {}, ids |-> {1}, ops |-> ops, rounds |-> 0, cancel |-> 0, inject |-> 0,
                     reuse |-> FALSE, nil |-> FALSE, startOps |-> {"Acct"},
                     handleOps |-> {}, finals |-> {}, prompts |-> {}],
                    [Config(cm, FALSE, "k") EXCEPT !.IdleTimeout = ct],
                    [Config(sm, FALSE, "k") EXCEPT !.IdleTimeout = TestIdleTimeout - ct])

NextDown ==
    \/ NextIdle
    \/ (env.ops = 1 /\ cache # 0 /\ conn[<<cache, "C">>].tbl # {} /\ ClientClose)
    \/ \E i \in 1..MaxSess : WriterFail(i)
    \/ \E i \in 1..MaxSess : WriteSessDone(i)
    \/ \E e \in Ends : WriterDone(e)

DownStep ==
    \/ \E e \in Ends : ArbDone(e) \/ WriterDone(e)
    \/ \E i \in 1..MaxSess :
          IsSess(i) /\ sess[i].done /\ (WriteSessDone(i) \/ CloseDone(i) \/ ClientRead(i) \/ SrvRead(i))
    \/ NcsDone

SpecDown == InitDown /\ [][NextDown]_vars /\ WF_vars(DownStep)

\* SpecClose: the scenarios of SpecAbort (calls on a handle that is closed
\* already) and of SpecStarts (sessions the arbiter closes for a full queue);
\* the arbiter, back in its select, takes the close request of a session that
\* waits or the case of its closed done channel, and finishes processPacket;
\* the close() of a session that is closed returns
InitClose == InitAbort \/ InitStarts

NextClose == Next \/ NextPeer \/ \E i \in 1..MaxSess : ArbCloseStale(i)

SpecClose ==
    InitClose /\ [][NextClose]_vars
        /\ \A i \in 1..MaxSess :
              WF_vars(ArbCloseSession(i) \/ ArbCloseStale(i) \/ CloseDone(i))
        /\ WF_vars(\E e \in Ends : ArbDone(e) \/ ArbSetErr(e))

\* SpecStale: a server connection that multiplexes, with an idle timeout or
\* without, and a peer that starts MaxInject + 1 authentication sessions on
\* it under one id or two: a session the arbiter closed for a full queue is
\* closed by its handler while the id is free, or is the id of a newer session
InitStale ==
    \E st \in {0, TestIdleTimeout} :
        InitWith([starts |-> {""},
                  pkts |-> {q \in PeerStarts : q.flags = hdrFlagSingleConnect},
                  ids |-> Ids, ops |-> 0, rounds |-> MaxRounds,
                  cancel |-> 0, inject |-> MaxInject + 1, reuse |-> FALSE,
                  nil |-> FALSE, startOps |-> {}, handleOps |-> {},
                  finals |-> {AuthenStatusPass}, prompts |-> {AuthenStatusGetUser}],
                 Config(FALSE, FALSE, "k"),
                 [Config(TRUE, FALSE, "k") EXCEPT !.IdleTimeout = st])

NextStale ==
    \/ NextPeer
    \/ \E i \in 1..MaxSess : ArbCloseStale(i)
    \/ \E e \in Ends : Tick(e)
    \/ \E e \in Ends : IdleFire(e)
    \/ \E e \in Ends : IdleClose(e)

SpecStale == InitStale /\ [][NextStale]_vars

\* SpecCodec: a packet value is marshalled and unmarshalled again, directly or
\* after it went through writePacket and the peer's readPacket; a body that
\* is no marshalled value goes through writePacket and readPacket.  The peer
\* has the secret of the writer, but for the requests of a client with a bad
\* secret
InitCodec ==
    /\ InitNet([starts |-> {""}, pkts |-> {}, ids |-> {}, ops |-> 0, rounds |-> 0, cancel |-> 0, inject |-> 0,
                reuse |-> FALSE, nil |-> FALSE, startOps |-> {}, handleOps |-> {},
                finals |-> {}, prompts |-> {}],
               Config(FALSE, FALSE, "k"), Config(FALSE, FALSE, "k"))
    /\ \E key \in Keys, h \in Headers :
        \/ \E x \in Values :
              codec = [stage |-> "value", x |-> x, key |-> key, rkey |-> key, hdr |-> h, b |-> <<>>,
                       plain |-> <<>>, w |-> <<>>, r |-> <<>>, via |-> "none", y |-> Bad]
        \/ \E b \in RawBodies :
              codec = [stage |-> "marshalled", x |-> [kind |-> "raw"], key |-> key, rkey |-> key,
                       hdr |-> h, b |-> b, plain |-> <<>>, w |-> <<>>, r |-> <<>>,
                       via |-> "none", y |-> Bad]
       \* a client whose secret is not the server's sends an accounting request
       \/ \E x \in StartRequests, sid \in SessionIds :
              codec = [stage |-> "value", x |-> x, key |-> BadSecret, rkey |-> SharedSecret,
                       hdr |-> <<verDefault, sessTypeAcct, 0, 0>> \o sid, b |-> <<>>,
                       plain |-> <<>>, w |-> <<>>, r |-> <<>>, via |-> "none", y |-> Bad]

NextCodec == Marshal \/ WritePacket \/ ReadPacket \/ Decode

SpecCodec == InitCodec /\ [][NextCodec]_vars

\* ------------------------------------------------------------ properties
SessIdx == 1..Len(sess)
ClientSess == {i \in SessIdx : sess[i].e[2] = "C" /\ sess[i].op # "none"}

\* C1 (the claim as stated): every sequence number a session accepts is exactly
\* one more than the number the session last sent, larger than every number it
\* accepted before, even on a client and odd on a server, also in sessions
\* that reach 255.
C1_SequenceDiscipline ==
    \A i \in SessIdx :
        LET ev == sess[i].ev IN
        ev.kind = "r" =>
            /\ ev.seq = ev.sent + 1
            /\ ev.seq > ev.recv
            /\ ev.seq % 2 = (IF sess[i].e[2] = "C" THEN 0 ELSE 1)

\* a client session has accepted a reply after it had sent 255
C1_Accepted255 ==
    \E i \in SessIdx : sess[i].ev.kind = "r" /\ sess[i].ev.sent = 255

\* C2 (the claim as stated): every packet a client session writes has an odd
\* sequence number and every packet a server session writes an even one, the
\* error replies of sendError included.
C2_ParityRule ==
    \A i \in SessIdx :
        sess[i].ev.kind = "w" =>
            sess[i].ev.seq % 2 = (IF sess[i].e[2] = "C" THEN 1 ELSE 0)

\* a server session has answered a packet that failed the sequence check
C2_ErrorReply ==
    \E i \in SessIdx :
        /\ sess[i].e[2] = "S" /\ sess[i].op = "error" /\ sess[i].nsock = 1
        /\ sess[i].lastr = 0

\* C3 (the claim as stated): a write on a session whose last used sequence
\* number is 0xff fails, so every packet a session writes has a larger
\* sequence number than every packet the session wrote or accepted before it:
\* no packet is written with a number that wrapped around to 0 or 1.
C3_TerminalSeq ==
    \A i \in SessIdx :
        LET ev == sess[i].ev IN
        ev.kind = "w" =>
            /\ ev.sent # 255 /\ ev.recv # 255
            /\ ev.seq > ev.sent /\ ev.seq > ev.recv

\* a session writes although the last sequence number it used is 255
C3_WriteAfter255 ==
    \E i \in SessIdx :
        sess[i].ev.kind = "w" /\ (sess[i].ev.sent = 255 \/ sess[i].ev.recv = 255)

\* C7: a Continue call on a session whose last-sent sequence number is >= 0xfe
\* hands the writer an AuthenContinue with abort set and an empty message and
\* no continue, and the call returns "session aborted, too many packets" with
\* the session closed; below 0xfe the call hands the writer a continue.
C7_ContinueGuard ==
    /\ [][\A i \in SessIdx :
            (cl.pc = "idle" /\ cl'.pc # "idle" /\ cl'.op = "Continue" /\ cl'.s = i) =>
                IF sess[i].seq >= 254
                THEN /\ sess'[i].wr # NilP /\ sess'[i].wr.kind = "AuthenContinue"
                     /\ sess'[i].wr.abort /\ sess'[i].wr.msg = ""
                     /\ sess'[i].op = "GuardAbort"
                ELSE /\ sess'[i].wr # NilP /\ sess'[i].wr.kind = "AuthenContinue"
                     /\ ~sess'[i].wr.abort
                     /\ sess'[i].op = "Continue"]_vars
    /\ [](\A i \in SessIdx :
            sess[i].op = "GuardAbort" =>
                /\ sess[i].wr # NilP => sess[i].wr.abort
                /\ sess[i].pc \in {"wsend", "closing", "closed"}
                /\ (cl.pc = "idle" /\ cl.last = i) =>
                      /\ cl.res = "TooMany" /\ cl.h = 0
                      /\ sess[i].done /\ i \notin conn[sess[i].e].tbl)

\* a Continue refused by the guard has returned
C7_Refused ==
    \E i \in SessIdx :
        /\ sess[i].op = "GuardAbort" /\ cl.pc = "idle" /\ cl.last = i
        /\ cl.res = "TooMany" /\ sess[i].done

\* the Continue calls made on client session i so far: its writes but the
\* start packet
Continues(i) == sess[i].nwr - 1

Returned(i) == cl.pc = "idle" /\ cl.last = i

\* the connection of session i has been torn down by conn.cleanup
TornDown(i) == conn[sess[i].e].arb = "exited"

\* the connections the Client has dialed
Dialed == {k \in Conns : conn[<<k, "C">>].arb # "none"}
\* the sessions the Client's operations were given
OpSess == {i \in SessIdx : sess[i].e[2] = "C" /\ sess[i].pc # "cread" /\ sess[i].pc # "end"}

\* C4: when both ends have Mux set, all the operations of a Client have their
\* sessions on one connection, the only one dialed; when an end has Mux unset,
\* every operation has its session on a connection dialed for it, so that no
\* two sessions share a connection and the connections dialed are as many as
\* the operations that dialed.
C4_MuxCardinality ==
    IF cfg["C"].Mux /\ cfg["S"].Mux
    THEN /\ Cardinality(Dialed) <= 1
         /\ \A i \in OpSess : sess[i].e = <<1, "C">>
    ELSE /\ \A i \in OpSess : \A j \in OpSess : sess[i].e = sess[j].e => i = j
         /\ Cardinality(OpSess) <= Cardinality(Dialed)
         /\ Cardinality(Dialed) <= cnt.ops
         /\ (cl.pc = "idle" /\ (cnt.ops = 0 \/ cl.res = "ok")) =>
                Cardinality(Dialed) = cnt.ops /\ Cardinality(OpSess) = cnt.ops

\* two operations have succeeded on the one connection of two ends with Mux
C4_TwoOnOne ==
    /\ cfg["C"].Mux /\ cfg["S"].Mux
    /\ cnt.ops >= 2 /\ cl.pc = "idle" /\ cl.res = "ok"
    /\ Cardinality(Dialed) = 1 /\ Cardinality(OpSess) >= 2

\* C5 (the claim as stated): a SendAuthenStart or Continue that returns a reply
\* with a status below 3 or above 5 returns with the session closed (out of the
\* table, done signalled) and without a handle; with a status from 3 to 5 the
\* session is open and usable.
C5_TerminalReplies ==
    \A i \in ClientSess :
        (Returned(i) /\ cl.op \in {"Authen", "Continue"} /\ cl.res = "ok") =>
            IF cl.rep < 3 \/ cl.rep > 5
            THEN /\ sess[i].done /\ i \notin conn[sess[i].e].tbl
                 /\ cl.h = 0
            ELSE /\ ~sess[i].done /\ i \in conn[sess[i].e].tbl
                 /\ cl.h = i /\ sess[i].pc = "open" /\ sess[i].p # NilP

\* C5 (amended): as stated, but a session that conn.cleanup closed, the
\* connection having been torn down while the call was closing it, has done
\* signalled and is still in the table of the dead connection.
C5_TerminalRepliesAmended ==
    \A i \in ClientSess :
        (Returned(i) /\ cl.op \in {"Authen", "Continue"} /\ cl.res = "ok") =>
            IF cl.rep < 3 \/ cl.rep > 5
            THEN /\ sess[i].done /\ sess[i].inClosed
                 /\ i \notin conn[sess[i].e].tbl \/ TornDown(i)
                 /\ cl.h = 0
            ELSE /\ ~sess[i].done /\ i \in conn[sess[i].e].tbl
                 /\ cl.h = i /\ sess[i].pc = "open" /\ sess[i].p # NilP

\* a Continue has returned a terminal reply and closed the session
C5_TerminalContinue ==
    \E i \in ClientSess :
        /\ Returned(i) /\ cl.op = "Continue" /\ cl.res = "ok"
        /\ cl.rep = AuthenStatusRestart /\ sess[i].done /\ cl.h = 0

C9_Cancellation ==
    \A i \in ClientSess :
        (Returned(i) /\ sess[i].serr = "ctx") =>
            /\ cl.res = "ctx"
            /\ sess[i].done /\ sess[i].inClosed
            /\ i \notin conn[sess[i].e].tbl
            /\ ~conn[sess[i].e].mux => conn[sess[i].e].arb # "serve"

\* C9 (amended): as stated, but a Continue that the sequence guard refused
\* returns "session aborted, too many packets" also when it is the context
\* that ended the write of its abort, and a session closed by conn.cleanup
\* stays in the table of the dead connection.
C9_CancellationAmended ==
    \A i \in ClientSess :
        (Returned(i) /\ sess[i].serr = "ctx") =>
            /\ IF sess[i].op = "GuardAbort" THEN cl.res = "TooMany" ELSE cl.res = "ctx"
            /\ cl.h = 0
            /\ sess[i].done /\ sess[i].inClosed
            /\ i \notin conn[sess[i].e].tbl \/ TornDown(i)
            /\ ~conn[sess[i].e].mux => conn[sess[i].e].arb # "serve"

\* an operation ended by its context has returned on a connection that is not
\* multiplexed
C9_Cancelled ==
    \E i \in ClientSess :
        /\ Returned(i) /\ sess[i].serr = "ctx" /\ cl.res = "ctx"
        /\ sess[i].done /\ ~conn[sess[i].e].mux /\ conn[sess[i].e].arb # "serve"

\* the server session j serves the client session i
Serves(j, i) ==
    /\ sess[j].e = Peer(sess[i].e) /\ sess[j].e[2] = "S"
    /\ sess[j].id = sess[i].id

\* C10: a handler that returns nil leaves its session without a further packet
\* and closed; the client's pending request then fails with SessionClosed when
\* the server's connection is not multiplexed, and when it is multiplexed it
\* ends only by the caller's context.
C10_NilReply ==
    \A j \in SessIdx :
        sess[j].op = "nil" =>
            /\ sess[j].wr = NilP /\ sess[j].nwr = sess[j].rounds
            /\ sess[j].nsock = sess[j].rounds
            /\ sess[j].pc \in {"closing", "end"}
            /\ sess[j].pc = "end" => sess[j].done
            /\ \A i \in ClientSess :
                  (/\ Serves(j, i) /\ Returned(i)
                   /\ cl.op \in {"Acct", "Author", "Authen", "Continue"}
                   /\ sess[i].nsock = sess[j].nrd) =>
                      IF conn[sess[j].e].mux
                      THEN cl.res = "ctx" /\ ctx = "done"
                      ELSE cl.res = "SessionClosed" \/ (cl.res = "ctx" /\ ctx = "done")

\* a request answered by nil has failed with SessionClosed
C10_SessionClosed ==
    \E j \in SessIdx : \E i \in ClientSess :
        /\ sess[j].op = "nil" /\ Serves(j, i) /\ Returned(i)
        /\ cl.res = "SessionClosed" /\ sess[j].nsock = 0 /\ sess[j].done

\* C11 (the claim as stated): once a client session has sent an AuthenContinue
\* with abort set, neither side sends a further packet on the session: the
\* client session writes nothing more and is closed when the call returns,
\* every later Continue or Abort on its handle fails with SessionClosed, and
\* the server session that accepted the abort writes no packet after it,
\* whatever the RequestHandler does.
C11_AbortSemantics ==
    \A i \in SessIdx :
        sess[i].ab =>
            /\ sess[i].nab = 0
            /\ (sess[i].e[2] = "C" /\ Returned(i)) =>
                  /\ sess[i].done /\ sess[i].p = NilP /\ cl.h = 0
                  /\ sess[i].serr = "SessionClosed" => cl.res = "SessionClosed"

\* a server session has accepted an abort and its task has ended
C11_AbortServed ==
    \E j \in SessIdx :
        sess[j].e[2] = "S" /\ sess[j].ab /\ sess[j].pc = "end"

\* the connections newConn has created
Created == {e \in Ends : conn[e].arb \in {"serve", "exited"}}

\* C12: a connection of a LegacyMux end has mux set from its creation on, with
\* no negotiation pending, whatever the flags of its packets; otherwise a
\* connection of a Mux end has mux unset and the negotiation pending until its
\* first inbound packet, and from then on mux is set iff that packet had the
\* single-connection flag and no negotiation is pending; a connection of an
\* end with neither has mux unset.  Once a connection has processed its first
\* inbound packet its mux status does not change.
C12_MuxNegotiation ==
    /\ [](\A e \in Created :
            LET c == conn[e]
                g == cfg[e[2]]
            IN IF g.LegacyMux THEN c.mux /\ ~c.checkMux
               ELSE IF g.Mux
               THEN IF c.rx = "none" THEN ~c.mux /\ c.checkMux
                    ELSE c.mux = (c.rx = "flag") /\ ~c.checkMux
               ELSE ~c.mux /\ ~c.checkMux)
    /\ [][\A e \in Created :
            conn[e].rx # "none" =>
                conn'[e].mux = conn[e].mux /\ conn'[e].checkMux = conn[e].checkMux]_vars

\* a negotiation has been settled: a connection of a Mux end that the flag of
\* its first packet made multiplexed
C12_Negotiated ==
    \E e \in Created :
        /\ cfg[e[2]].Mux /\ ~cfg[e[2]].LegacyMux
        /\ conn[e].rx = "flag" /\ conn[e].mux /\ ~conn[e].checkMux

\* the server session i answers the first packet of its session in this step
FirstReply(i) ==
    /\ i \in SessIdx /\ sess[i].e[2] = "S"
    /\ sess[i].pc = "hread" /\ sess[i].inq # <<>> /\ Head(sess[i].inq).seq = 1
    /\ sess'[i].pc = "wsend"

\* C13: a LegacyMux server sets the single-connection flag on the first reply
\* of a session iff the first packet of the session had it, and sets no other
\* flag; a Client with Mux (and not LegacyMux) against such a server has the
\* mux status of its connection set by the first reply and dials one
\* connection for all its sequential operations.
C13_LegacyEcho ==
    /\ [][\A i \in 1..MaxSess :
            (cfg["S"].LegacyMux /\ FirstReply(i)) =>
                sess'[i].wr.flags = AndFlag(Head(sess[i].inq).flags)]_vars
    /\ []((cfg["S"].LegacyMux /\ cfg["C"].Mux /\ ~cfg["C"].LegacyMux) =>
            /\ Cardinality(Dialed) <= 1
            /\ \A e \in Created :
                  (e[2] = "C" /\ conn[e].rx # "none") => conn[e].rx = "flag" /\ conn[e].mux
            /\ \A i \in OpSess : sess[i].e = <<1, "C">>)

\* a Mux Client has had two requests answered by a LegacyMux server on the one
\* connection it dialed
C13_Reused ==
    /\ cfg["S"].LegacyMux /\ cfg["C"].Mux /\ ~cfg["C"].LegacyMux
    /\ cnt.ops >= 2 /\ cl.pc = "idle" /\ cl.res = "ok"
    /\ Cardinality(Dialed) = 1 /\ conn[<<1, "C">>].mux

\* C14 (the claim as stated): the first packet a server session writes has the
\* single-connection flag when the server has Mux set and the mux status of
\* the connection is true, and has no flag at all when the server has neither
\* Mux nor LegacyMux.
C14_MuxFlag ==
    \A i \in SessIdx :
        (sess[i].e[2] = "S" /\ sess[i].nwr = 1 /\ sess[i].wr # NilP) =>
            /\ (cfg["S"].Mux /\ ~cfg["S"].LegacyMux /\ conn[sess[i].e].mux) =>
                  sess[i].wr.flags = hdrFlagSingleConnect
            /\ (~cfg["S"].Mux /\ ~cfg["S"].LegacyMux) => sess[i].wr.flags = 0

\* a server with Mux writes the first reply of a session on a connection whose
\* mux status is true
C14_FirstReplyOnMux ==
    \E i \in SessIdx :
        /\ sess[i].e[2] = "S" /\ sess[i].nwr = 1 /\ sess[i].wr # NilP
        /\ cfg["S"].Mux /\ conn[sess[i].e].mux

\* C15: a server connection whose mux status is false creates a session for
\* every inbound packet whose id is not in its table (no packet is dropped),
\* also beside open sessions, and it has returned from conn.serve, its socket
\* closed, in every state in which its table is empty after its first packet
\* and conn.serve is not inside processPacket (between the closeSession and
\* the setErr of a full queue).
C15_UnmuxedServer ==
    \A e \in Created :
        (e[2] = "S" /\ ~conn[e].mux /\ ~conn[e].checkMux) =>
            /\ conn[e].pk # "dropped"
            /\ (conn[e].pk # "none" /\ conn[e].tbl = {} /\ conn[e].qf = 0) =>
                  conn[e].arb = "exited" /\ conn[e].done /\ conn[e].nc = "closed"

\* a server connection that is not multiplexed has created a session beside
\* an open one
C15_SecondSession ==
    \E e \in Created :
        /\ e[2] = "S" /\ ~conn[e].mux /\ ~conn[e].checkMux
        /\ conn[e].pk = "beside" /\ Cardinality(conn[e].tbl) >= 2

\* the connections that have had a session
Used == {e \in Created : \E i \in SessIdx : sess[i].e = e}
\* the idle timer of e has expired
Expired(e) == conn[e].idleT \in {"fired", "ran"}

C17_NoSessionAfterFire ==
    /\ [](\A e \in Created : Expired(e) => conn[e].tbl = {})
    /\ [][\A e \in Created :
            Expired(e) =>
                /\ {i \in DOMAIN sess' : sess'[i].e = e} = {i \in SessIdx : sess[i].e = e}
                /\ (cl.pc = "ncs" /\ cl.k = e[1] /\ e[2] = "C" /\ cl' # cl) =>
                      cl'.pc = "dial" /\ cl'.k = cl.k]_vars
    /\ <>[](\A e \in Created : Expired(e) => conn[e].arb = "exited")

\* a server connection has dropped a packet with a new id, its idle timer
\* expired, and has closed
C17_Dropped ==
    \E e \in Created :
        /\ e[2] = "S" /\ Expired(e)
        /\ conn[e].pk = "dropped" /\ conn[e].arb = "exited"

\* the connection takes a session request and would grant it
Accepting(c) ==
    /\ c.arb = "serve" /\ ~c.done
    /\ c.mux \/ c.tbl = {}
    /\ ~(c.tbl = {} /\ c.idleT # "nil" /\ StopFails(c))
\* the caller's request gets a session in this step
Allocated == cl.pc = "ncs" /\ Len(sess') = Len(sess) + 1 /\ sess'[Len(sess')].e[2] = "C"

\* C18: with Mux or LegacyMux set, the connection a request dialed while
\* nothing was cached becomes the cached connection when its session is
\* created, a cached connection is never replaced but only cleared once it
\* is closed, and a request that finds the cached connection open and
\* accepting sessions gets its session on it and dials nothing.
C18_ClientCache ==
    /\ [](cache # 0 => (cfg["C"].Mux \/ cfg["C"].LegacyMux) /\ cache \in Dialed)
    /\ [][(Allocated /\ (cfg["C"].Mux \/ cfg["C"].LegacyMux) /\ ~cl.cached /\ cache = 0)
            => cache' = cl.k /\ sess'[Len(sess')].e = <<cl.k, "C">>]_vars
    /\ [][(cache # 0 /\ cache' # cache) => cache' = 0 /\ conn[<<cache, "C">>].done]_vars
    /\ [][(cl.pc = "ncs" /\ cl.cached /\ cl' # cl /\ Accepting(conn[<<cl.k, "C">>]))
            => /\ Allocated /\ sess'[Len(sess')].e = <<cl.k, "C">>
               /\ cl'.pc # "dial" /\ Dialed' = Dialed /\ cache' = cache]_vars

\* a second request has its session on the cached connection, the only
\* connection the Client has dialed
C18_CacheReused ==
    /\ cache # 0 /\ Dialed = {cache}
    /\ Cardinality({i \in OpSess : sess[i].e = <<cache, "C">>}) >= 2

\* the connections of the Client that are still served
OpenConns == {k \in Dialed : conn[<<k, "C">>].arb = "serve"}
\* the caller is between two requests and every session of the Client is closed
AllClosed == cl.pc = "idle" /\ \A i \in SessIdx : sess[i].e[2] = "C" => sess[i].done

\* C19: a connection dialed while another was cached is only given up by its
\* closing goroutine with its done channel closed, it is closed (conn.serve
\* returned) some time after the session it was dialed for is closed, and once
\* all sessions of the Client are closed there comes a state in which no
\* connection but the cached one is open, unless a new request is made first.
C19_NoLeak ==
    /\ [][\A i \in 1..MaxSess, k \in Conns :
            (<<i, k>> \in bg.close /\ <<i, k>> \notin bg'.close) =>
                sess[i].done /\ conn'[<<k, "C">>].done]_vars
    /\ \A k \in Conns :
          (\E i \in SessIdx : <<i, k>> \in bg.close /\ sess[i].done)
              ~> (conn[<<k, "C">>].arb = "exited")
    /\ AllClosed ~> (OpenConns \subseteq {cache} \/ ~AllClosed)

\* a multiplexed connection that was dialed while another was cached has been
\* closed by its goroutine after its session closed
C19_ExtraClosed ==
    \E k \in Dialed :
        /\ k # cache /\ cache # 0 /\ bg.close = {} /\ k \notin bg.clear
        /\ conn[<<k, "C">>].mux /\ conn[<<k, "C">>].arb = "exited"
        /\ conn[<<k, "C">>].idleT = "nil"
        /\ \E i \in SessIdx : sess[i].e = <<k, "C">> /\ sess[i].err = "SessionClosed"

\* ctx.Err() # nil for the context the handler of session i was called with
HandlerCtxDone(i) == sess[i].hctx = "sess" /\ sess[i].done
\* the sessions whose RequestHandler has been called
Handled == {i \in SessIdx : sess[i].e[2] = "S" /\ sess[i].hctx # "none"}

\* C20: the context a RequestHandler was called with is done exactly when
\* the done channel of its session is closed, and once the done channel of
\* the connection is closed the context of a session that is still open on
\* it is cancelled some time later.
C20_HandlerContext ==
    /\ [](\A i \in Handled : HandlerCtxDone(i) <=> sess[i].done)
    /\ \A i \in 1..MaxSess :
          (i \in Handled /\ conn[sess[i].e].done /\ ~sess[i].done)
              ~> (i \in SessIdx /\ sess[i].e[2] = "S" /\ sess[i].done)
    /\ \A i \in 1..MaxSess :
          (i \in Handled /\ conn[sess[i].e].done /\ ~sess[i].done)
              ~> (i \in Handled => HandlerCtxDone(i))

\* the connection was closed under a handler that waits for the client's
\* continue, and the handler's context is cancelled
C20_CancelledUnderHandler ==
    \E i \in Handled :
        /\ sess[i].pc = "hcread" /\ sess[i].rounds > 0
        /\ conn[sess[i].e].arb = "exited" /\ i \in conn[sess[i].e].tbl
        /\ HandlerCtxDone(i)

\* the server sessions whose first packet serveSession answered with sendError
FirstFailed ==
    {i \in SessIdx : sess[i].e[2] = "S" /\ sess[i].op = "error"
                        /\ sess[i].nrd = 1 /\ sess[i].rounds = 0}
\* the error reply of the kind that goes with a header type
IsErrorReply(w) ==
    /\ w.msg = "err"
    /\ \/ w.typ = sessTypeAuthen /\ w.kind = "AuthenReply" /\ w.status = AuthenStatusError
       \/ w.typ = sessTypeAuthor /\ w.kind = "AuthorResponse" /\ w.status = AuthorStatusError
       \/ w.typ = sessTypeAcct /\ w.kind = "AcctReply" /\ w.status = AcctStatusError

\* C21 (the claim as stated): for a first packet that fails the sequence
\* check, the decoding, the version check or has an invalid session type the
\* RequestHandler is not called, one reply is handed to the writer (none when
\* the session was closed meanwhile), that reply is the error reply of the
\* kind of the packet's header type, and the session is then closed.
C21_ErrorReplies ==
    \A i \in FirstFailed :
        /\ sess[i].hctx = "none"
        /\ sess[i].nwr = 1 \/ (sess[i].nwr = 0 /\ sess[i].done)
        /\ sess[i].pc \in {"wsend", "closing", "end"}
        /\ sess[i].pc = "wsend" => IsErrorReply(sess[i].wr)

\* an error reply to a first packet is on the socket and the session closed
C21_ErrorReplied ==
    \E i \in FirstFailed :
        /\ sess[i].nsock = 1 /\ sess[i].pc = "end" /\ sess[i].done
        /\ wire[Peer(sess[i].e)] # <<>> /\ IsErrorReply(Head(wire[Peer(sess[i].e)]))

\* the value unmarshal builds from the body of x: readBuf.bytes yields a nil
\* slice for no bytes, make([]string, n) a non-nil list for no arguments
Canon(x) ==
    CASE x.kind \in {"AuthenStart", "AuthenReply"} ->
            [x EXCEPT !.Data = IF @.v = <<>> THEN NilSlice ELSE @]
      [] x.kind \in {"AuthorRequest", "AuthorResponse", "AcctRequest"} ->
            [x EXCEPT !.Arg = Slice(@.v)]
      [] OTHER -> x
\* a value was marshalled and the body unmarshalled
RoundTrip == codec.stage = "decoded" /\ codec.via = "marshalled"

\* C22 (the claim as stated): unmarshal(marshal(x)) succeeds and yields a
\* value equal to x (reflect.DeepEqual, as in TestPacketMarshalUnmarshal) for
\* every value of every packet kind that marshal accepts.
C22_RoundTripEqual ==
    RoundTrip => ~codec.y.err /\ codec.y.v = codec.x

\* C22 (amended): unmarshal(marshal(x)) succeeds and yields x with an empty
\* Data slice turned into nil and a nil Arg list turned into an empty one;
\* every byte, string, flag and argument is the one of x.
C22_RoundTrip ==
    RoundTrip => ~codec.y.err /\ codec.y.v = Canon(codec.x)

\* an aborting AuthenContinue with a message, and a request with a field of
\* the largest length, made the round trip
C22_Decoded ==
    /\ RoundTrip /\ ~codec.y.err
    /\ \/ codec.x.kind = "AuthenContinue" /\ codec.x.Abort /\ codec.x.Message # <<>>
       \/ codec.x.kind = "AuthenStart" /\ Len(codec.x.User) = maxUint8

\* the packet went through writePacket, and through the peer's readPacket
WasWritten == codec.stage \in {"written", "read"} \/ (codec.stage = "decoded" /\ codec.via = "read")
WasRead == codec.stage = "read" \/ (codec.stage = "decoded" /\ codec.via = "read")

\* C23: crypt leaves the 12 header bytes and the length of a packet as they
\* are; applied a second time with the same secret it restores the packet
\* exactly, for a body of any length and any secret; so the packet that
\* writePacket obfuscated is, after the peer's readPacket, the packet that
\* was written, and its body decodes as the marshalled body does.
C23_Involution ==
    /\ WasWritten => /\ SubSeq(codec.w, 1, hdrLen) = SubSeq(codec.plain, 1, hdrLen)
                     /\ Len(codec.w) = Len(codec.plain)
    /\ WasRead /\ codec.rkey = codec.key =>
            /\ codec.r = codec.plain
            /\ SubSeq(codec.r, hdrLen + 1, Len(codec.r)) = codec.b
            /\ codec.stage = "decoded" => codec.y = unmarshal(codec.x.kind, codec.b)

\* a body of more than one block whose last block is short was obfuscated
\* into other bytes and read back
C23_SeveralBlocks ==
    /\ codec.stage = "read" /\ codec.rkey = codec.key
    /\ Len(codec.b) > md5Size /\ Len(codec.b) % md5Size # 0
    /\ codec.w # codec.plain
    /\ codec.r = codec.plain

\* C24 (the claim as stated, on the server's side): when the secret of the
\* client is not the secret of the server, the server's decoding of the
\* client's request fails with BadPacket, which the server logs and answers.
C24_WrongSecret ==
    codec.stage = "decoded" /\ codec.via = "read" /\ codec.rkey # codec.key => codec.y.err

\* the request of a client with a bad secret failed to decode at the server
C24_BadPacket ==
    /\ codec.stage = "decoded" /\ codec.via = "read" /\ codec.rkey # codec.key
    /\ codec.y.err

\* the sessions of client connections that processPacket created for an
\* inbound packet, in the table of a connection that is being served
Stray == {i \in SessIdx : sess[i].e[2] = "C" /\ sess[i].pc \in {"cread", "end"}}
StrayInTable == {i \in Stray : i \in conn[sess[i].e].tbl /\ conn[sess[i].e].arb = "serve"}

Writes(i) == i \in SessIdx /\ sess[i].pc = "wsend" /\ sess'[i].nsock = sess[i].nsock + 1

Fails(i) ==
    /\ i \in SessIdx /\ sess[i].pc = "wsend" /\ sess'[i].wr = NilP
    /\ conn[sess[i].e].wl /\ ~conn'[sess[i].e].wl

\* C27: when a write fails the request gets the error (the operation of a
\* client session ends with it, unless its context was done), the done
\* signal of the connection is closed, and the writer writes nothing
\* afterwards: a packet reaches the socket only while the writer runs, and a
\* writer that has returned stays so; every session waiting to hand a packet
\* to a writer that has returned leaves writePacket.
C27_WriteErrorsFatal ==
    /\ [][\A i \in 1..MaxSess :
            /\ Fails(i) => /\ conn'[sess[i].e].done
                           /\ sess'[i].pc # "wsend" /\ sess'[i].nsock = sess[i].nsock
                           /\ sess[i].e[2] = "C" => sess'[i].serr = "werr"
                           /\ wire' = wire
            /\ Writes(i) => conn[sess[i].e].wl
            /\ i \in SessIdx /\ conn[sess[i].e].arb # "none" /\ ~conn[sess[i].e].wl =>
                    ~conn'[sess[i].e].wl /\ sess'[i].nsock = sess[i].nsock]_vars
    /\ <>[](\A i \in SessIdx : ~(sess[i].pc = "wsend" /\ ~conn[sess[i].e].wl))

\* a write failed on an open socket while another session of the connection
\* waits with a prepared packet
C27_BlockedOnFailedWriter ==
    \E i \in SessIdx :
        LET e == sess[i].e
        IN  /\ sess[i].pc = "wsend" /\ ~sess[i].done
            /\ ~conn[e].wl /\ conn[e].done /\ conn[e].arb = "serve" /\ conn[e].nc = "open"

\* the sessions the arbiter closed for a full queue whose PacketQueueFull is
\* not yet set, or set and not yet returned to the owner
Overflowed ==
    {i \in SessIdx : conn[sess[i].e].qf = i \/ sess[i].err = "PacketQueueFull"}

\* C28 (the claim as stated): when a packet arrives for a session whose
\* queue is full the arbiter closes the session (out of the table, done and
\* in closed), and the first error the owner's failing read or write
\* returns afterwards is PacketQueueFull: no other error is returned to the
\* owner while PacketQueueFull is still to be set or to be returned.
C28_QueueFull ==
    \A i \in Overflowed :
        /\ sess[i].done /\ sess[i].inClosed
        /\ i \notin conn[sess[i].e].tbl
        /\ sess[i].seen = "none"

\* the owner of a session closed for a full queue got PacketQueueFull
C28_SeenQueueFull ==
    \E i \in SessIdx :
        /\ sess[i].seen = "PacketQueueFull" /\ sess[i].done /\ sess[i].inClosed
        /\ conn[sess[i].e].pk = "full"

\* the table of connection e holds a session with this id
InTable(e, id) == \E i \in conn[e].tbl : sess[i].id = id
\* the reasons for which a session request for id on connection e is rejected
NoMux(e) == ~conn[e].mux /\ conn[e].tbl # {}
TimerFired(e) == conn[e].tbl = {} /\ Expired(e)
Rejected(e, id) == NoMux(e) \/ InTable(e, id) \/ TimerFired(e)

\* C29: a session request for id on a client connection is rejected if the
\* connection's mux status is false and its table holds a session, or the id
\* is in the table, or the table is empty and the idle timer has expired (the
\* error is then ConnectionClosed); a rejected request adds no session, and
\* unless the id collided (the request is then repeated and nothing changes)
\* conn.newClientSession returns to its caller, which returns the error or,
\* on the cached connection, goes on to dial.  Every other request adds a
\* new session with that id to the table.
C29_Allocation ==
    [][\A id \in env.ids :
         LET e == <<cl.k, "C">>
             n == Len(sess) + 1
         IN ArbNewSession(id) =>
               IF Rejected(e, id)
               THEN /\ Len(sess') = Len(sess) /\ conn'[e].tbl = conn[e].tbl
                    /\ cl'.pc = IF cl.cached THEN "dial" ELSE "idle"
                    /\ ~cl.cached =>
                          cl'.res = IF NoMux(e) THEN "MuxUnsupported" ELSE "ConnectionClosed"
                    /\ ~NoMux(e) => ~InTable(e, id) /\ TimerFired(e)
               ELSE /\ Len(sess') = n
                    /\ sess'[n].id = id /\ sess'[n].e = e
                    /\ conn'[e].tbl = conn[e].tbl \cup {n}]_vars

\* the cached connection, its idle timer expired, has refused a session and
\* the caller goes on to dial
C29_RefusedAfterTimer ==
    /\ cl.pc = "dial" /\ cl.cached /\ ctx # "done"
    /\ LET e == <<cl.k, "C">> IN
          /\ conn[e].idleT = "fired" /\ ~conn[e].done /\ conn[e].tbl = {}

\* the cached connection, its mux status false, has refused a second session
RefusedNoMux ==
    /\ cl.pc = "dial" /\ cl.cached /\ ctx # "done"
    /\ LET e == <<cl.k, "C">> IN
          /\ ~conn[e].done /\ ~conn[e].mux /\ conn[e].tbl # {}

\* a connection holds two sessions of different ids
TwoIds ==
    \E e \in Created :
        /\ e[2] = "C"
        /\ \E i, j \in conn[e].tbl : sess[i].id # sess[j].id

\* session i dequeues a packet in this step
Dequeues(i) == i \in SessIdx /\ sess'[i].nrd = sess[i].nrd + 1

\* C30 (the claim as stated): when session.readPacket dequeues a packet
\* whose sequence number is not the last sent plus one it returns
\* SessionNotFound if the session has never sent a packet and InvalidSeqNo if
\* it has; a packet with the right number and the connection's own parity
\* gets InvalidSeqNo; and a packet that is refused is handed on as it came,
\* its body not decoded.
C30_ReadErrors ==
    [][\A i \in 1..MaxSess :
         Dequeues(i) =>
            LET s == sess[i]
                q == Head(s.inq)
            IN /\ q.seq # Inc8(s.seq) =>
                     sess'[i].rerr = IF s.nwr = 0 THEN "SessionNotFound" ELSE "InvalidSeqNo"
               /\ (q.seq = Inc8(s.seq) /\ q.seq % 2 = parity(s.e)) =>
                     sess'[i].rerr = "InvalidSeqNo"
               /\ sess'[i].rerr # "ok" =>
                     /\ sess'[i].lastr = s.lastr /\ sess'[i].ab = s.ab
                     /\ sess'[i].rep = s.rep]_vars

\* a session that has sent packets, the last of them numbered 0, was given
\* a packet out of sequence
C30_AfterWrap ==
    \E i \in SessIdx :
        /\ sess[i].nwr > 1 /\ sess[i].rerr = "SessionNotFound"

\* C31: when the arbiter handles the close request of a session that is in
\* the table, the session is out of the table afterwards, its done channel
\* and its inbound channel are closed and its error is SessionClosed; if the
\* table is then empty and the mux status false the connection closes
\* (conn.serve returns, done closed, socket closed), and if the mux status is
\* true the arbiter goes on serving and the connection stays as open as it was.
C31_SessionClose ==
    [][\A i \in 1..MaxSess :
         (ArbCloseSession(i) /\ i \in conn[sess[i].e].tbl) =>
            LET e == sess[i].e IN
            /\ i \notin conn'[e].tbl /\ conn'[e].tbl = conn[e].tbl \ {i}
            /\ sess'[i].done /\ sess'[i].inClosed /\ sess'[i].err = "SessionClosed"
            /\ (conn'[e].tbl = {} /\ ~conn[e].mux) =>
                  conn'[e].arb = "exited" /\ conn'[e].done /\ conn'[e].nc = "closed"
            /\ conn[e].mux =>
                  /\ conn'[e].arb = "serve"
                  /\ conn'[e].done = conn[e].done /\ conn'[e].nc = conn[e].nc]_vars

\* a multiplexed connection serves with an empty table after the arbiter
\* closed its session, and a connection that is not multiplexed has closed
\* with its last session
C31_ClosedBothWays ==
    /\ \E i \in SessIdx :
          LET c == conn[sess[i].e] IN
          /\ sess[i].done /\ sess[i].err = "SessionClosed" /\ i \notin c.tbl
          /\ c.mux /\ c.arb = "serve" /\ c.tbl = {} /\ ~c.done
    /\ \E i \in SessIdx :
          LET c == conn[sess[i].e] IN
          /\ sess[i].done /\ sess[i].err = "SessionClosed" /\ i \notin c.tbl
          /\ ~c.mux /\ c.arb = "exited" /\ c.tbl = {}

\* session i's readPacket runs in this step, its select having a packet or a
\* closed channel
Reads(i) == ClientRead(i) \/ SrvRead(i) \/ SrvContRead(i) \/ ClientStrayRead(i)
\* the error session.readErr returns in this step, if it runs
ErrOf(i) == IF sess[i].seen = "none" THEN sess'[i].seen ELSE sess'[i].late
\* the latched session error, or the connection's, or SessionClosed
LatchedErr(i) ==
    IF sess[i].err # "nil" THEN sess[i].err
    ELSE IF conn[sess[i].e].err # "nil" THEN conn[sess[i].e].err
    ELSE "SessionClosed"

\* the operations on a closed session, step by step: a read on a session
\* whose inbound channel is closed returns the packet still queued, if any,
\* and else the latched error; and a session whose done channel is closed
\* keeps its sequence number and submits nothing to the writer
ClosedOps ==
    [][\A i \in 1..MaxSess :
         i \in SessIdx =>
            /\ (Reads(i) /\ sess[i].inClosed /\ sess[i].inq # <<>>) =>
                  Dequeues(i) /\ sess'[i].rerr = SeqCheck(sess[i], Head(sess[i].inq))
            /\ (Reads(i) /\ sess[i].inClosed /\ sess[i].inq = <<>>) =>
                  ErrOf(i) = LatchedErr(i) /\ sess'[i].nrd = sess[i].nrd
            /\ (sess[i].done /\ sess'[i].op # "gone") =>
                  /\ sess'[i].seq = sess[i].seq /\ sess'[i].nwr = sess[i].nwr
                  /\ sess[i].wr = NilP => sess'[i].wr = NilP]_vars

ExpectedVer(q) ==
    LET a == StartFields(q.msg) IN
    IF /\ q.kind = "AuthenStart"
       /\ \/ a.Action = AuthenActionLogin
             /\ a.AuthenType \in {AuthenTypePAP, AuthenTypeCHAP, AuthenTypeARAP, AuthenTypeMSCHAP}
          \/ a.Action = AuthenActionSendAuth
             /\ a.AuthenType \in {AuthenTypePAP, AuthenTypeCHAP, AuthenTypeMSCHAP}
    THEN verDefaultMinorOne
    ELSE verDefault

\* session i's serveSession takes a request that passes readPacket's checks
\* and decodes as the request of its type
TakesRequest(i) ==
    /\ SrvRead(i) /\ Dequeues(i) /\ sess'[i].rerr = "ok"
    /\ LET q == Head(sess[i].inq) IN
          /\ q.typ \in {sessTypeAuthen, sessTypeAuthor, sessTypeAcct}
          /\ Unmarshal(q, cfg["S"].key, RequestKind(q.typ)) = "ok"

\* C33: AuthenStart.version() is minor-one exactly for LOGIN with PAP, CHAP,
\* ARAP or MSCHAP and SEND_AUTH with PAP, CHAP or MSCHAP, and the default for
\* every other pair; the start packet a client writes carries that version;
\* and the server calls the handler only for a request whose header version
\* is the expected one (the default for authorization and accounting), and
\* otherwise the reply it writes is an error reply whose header carries the
\* expected version.
C33_Version ==
    /\ [](\A r \in StartTable :
             LET q == [kind |-> "AuthenStart", msg |-> r[1]] IN
             startVersion(StartFields(r[1])) = ExpectedVer(q))
    /\ [](\A e \in Ends : \A k \in 1..Len(wire[e]) :
             LET q == wire[e][k] IN
             (q.src = "C" /\ q.seq = 1) => q.ver = ExpectedVer(q))
    /\ [][\A i \in 1..MaxSess :
             (i \in SessIdx /\ TakesRequest(i)) =>
                LET q == Head(sess[i].inq) IN
                IF q.ver = ExpectedVer(q)
                THEN sess'[i].hctx = "sess" /\ sess'[i].op # "error"
                ELSE /\ sess'[i].hctx = "none" /\ sess'[i].op = "error"
                     /\ sess'[i].wr # NilP =>
                           /\ sess'[i].wr.ver = ExpectedVer(q)
                           /\ sess'[i].wr.status \in {AuthenStatusError, AuthorStatusError,
                                                      AcctStatusError}]_vars

\* the server has answered a well-formed request that came with minor version
\* one, the default being expected, by an error reply with the default
\* version, the handler not called
C33_ExpectedInReply ==
    \E i \in SessIdx :
        /\ sess[i].e[2] = "S" /\ sess[i].op = "error" /\ sess[i].wr # NilP
        /\ sess[i].wr.ver = verDefault /\ sess[i].wr.status = AuthenStatusError
        /\ sess[i].hctx = "none" /\ sess[i].rerr = "ok"

\* a client has written a CHAP login with minor version one
ClientMinorOne ==
    \E e \in Ends : \E k \in 1..Len(wire[e]) :
        /\ wire[e][k].src = "C" /\ wire[e][k].msg = "a1t3"
        /\ wire[e][k].ver = verDefaultMinorOne

ClosedByCleanup == {i \in SessIdx : sess[i].done /\ i \in conn[sess[i].e].tbl}

\* C35: a session closed by the teardown of its connection is never seen
\* closed while the done channel of the connection is open: the round of
\* cleanup that closes a session runs with that channel closed, and an
\* arbiter that is in cleanup or has exited has closed it.
C35_TeardownOrder ==
    /\ [](\A i \in ClosedByCleanup : conn[sess[i].e].done)
    /\ [](\A e \in Ends : conn[e].arb \in {"cleanup", "exited"} => conn[e].done)
    /\ [][\A e \in Ends, i \in 1..MaxSess : ArbCleanupSess(e, i) => conn[e].done]_vars

\* cleanup has closed one session of a table and not yet another
C35_MidCleanup ==
    \E e \in Ends : /\ conn[e].arb = "cleanup"
                    /\ \E i \in conn[e].tbl : sess[i].done
                    /\ \E i \in conn[e].tbl : ~sess[i].done

\* the arbiter answers a session request of the cached connection k: the
\* first task's, or the second task's
Answers(k) ==
    \/ cl.pc = "ncs" /\ cl.k = k /\ \E id \in Ids : ArbNewSession(id)
    \/ cache = k /\ \E id \in Ids : OtherRequest(id)

\* the answer is the refusal "session multiplexing not supported"
Refuses(k) ==
    \/ cl.pc = "ncs" /\ cl.k = k /\ cl.cached /\ cl'.pc = "dial" /\ NoMux(<<k, "C">>)
    \/ bg.other = "none" /\ bg'.other = "MuxUnsupported"

Torn(e) ==
    /\ conn[e].arb = "exited" /\ conn[e].nc = "closed"
    /\ ~conn[e].rl /\ ~conn[e].wl
    /\ \A i \in conn[e].tbl : sess[i].done /\ sess[i].inClosed

\* session i is inside readPacket, writePacket or close
Blocked(i) == sess[i].pc \in {"wsend", "rwait", "hread", "hcread", "cread", "closing"}

\* C37: once the done channel of a connection is closed the arbiter exits,
\* the sessions left in the table get done and in closed, the socket is
\* closed and the reader and the writer exit; and no session operation, nor a
\* session request, on the connection stays blocked for ever.
C37_TeardownLiveness ==
    <>[](/\ \A e \in Created : conn[e].done => Torn(e)
         /\ \A i \in SessIdx : conn[sess[i].e].done => ~Blocked(i)
         /\ cl.pc = "ncs" => ~conn[<<cl.k, "C">>].done)

\* a connection was torn down with a session in its table, its writer having
\* returned on the closed done channel
C37_TornWithSession ==
    \E e \in Created : Torn(e) /\ conn[e].tbl # {} /\ conn[e].err = "nil"

\* session i is inside session.close()
Closing(i) == i \in SessIdx /\ sess[i].pc = "closing"

\* C38: a call of session.close() returns, and when it returns the done
\* channel of the session is closed: whether the arbiter serves the request,
\* has closed the session already, is inside cleanup or has exited.
C38_CloseReturns ==
    /\ \A i \in 1..MaxSess : Closing(i) ~> ~Closing(i)
    /\ [][\A i \in 1..MaxSess : Closing(i) /\ ~Closing(i)' => sess'[i].done]_vars

\* close() has returned on a session that was closed before the call, the
\* arbiter still serving, and on a session of a connection torn down
C38_ClosedTwice ==
    \E i \in SessIdx :
        /\ sess[i].pc = "closed" /\ sess[i].op = "Close" /\ sess[i].done
        /\ conn[sess[i].e].arb = "serve" /\ conn[sess[i].e].stale

\* the arbiter puts a packet into the inbound channel of session i
Enqueues(i) == IsSess(i) /\ Len(sess'[i].inq) > Len(sess[i].inq)

\* the done channel, the inbound channel of session i is closed in this step
ClosesDone(i) == IsSess(i) /\ ~sess[i].done /\ sess'[i].done
ClosesIn(i) == IsSess(i) /\ ~sess[i].inClosed /\ sess'[i].inClosed

\* C39: no channel of a session is closed twice and no packet is put into a
\* closed inbound channel: the sessions in the table of an arbiter that has
\* not returned have done and in open, done and in are closed together, of a
\* session that is in the table, by the arbiter that takes it out of the
\* table or returns; and a packet is put into the channel of a session of
\* the table only.
C39_ChannelSafety ==
    /\ [](\A e \in Created : conn[e].arb = "serve" =>
              \A i \in conn[e].tbl : ~sess[i].done /\ ~sess[i].inClosed)
    /\ [](\A i \in SessIdx : sess[i].done = sess[i].inClosed)
    /\ [][\A i \in 1..MaxSess : ClosesDone(i) \/ ClosesIn(i) =>
              /\ i \in conn[sess[i].e].tbl /\ conn[sess[i].e].arb = "serve"
              /\ i \notin conn'[sess[i].e].tbl \/ conn'[sess[i].e].arb = "exited"]_vars
    /\ [][\A i \in 1..MaxSess : Enqueues(i) =>
              /\ ~sess[i].inClosed /\ i \in conn[sess[i].e].tbl
              /\ conn[sess[i].e].arb = "serve"]_vars

\* on a connection that was torn down since, a session was closed for a
\* full queue and the close request of its handler was served afterwards
C39_ClosedEveryWay ==
    \E e \in Created :
        /\ conn[e].arb = "exited" /\ conn[e].stale /\ conn[e].mux
        /\ \E i \in Overflowed : sess[i].e = e /\ sess[i].pc = "end"

\* the arbiter serves the close request of session i, which is not the
\* session its table has for the id (it has none, or a newer one)
StaleClose(i) == ArbCloseStale(i) /\ i \notin conn[sess[i].e].tbl

\* C40: when the arbiter serves a close request for a session that is not
\* the one its table has for the id, the table, the done and inbound channels
\* of every session, the idle timer and the connection stay as they are.
C40_StaleClose ==
    [][\A i \in 1..MaxSess : StaleClose(i) =>
          LET e == sess[i].e IN
          /\ conn'[e].tbl = conn[e].tbl
          /\ conn'[e].idleT = conn[e].idleT /\ conn'[e].left = conn[e].left
          /\ conn'[e].idle = conn[e].idle
          /\ conn'[e].arb = "serve" /\ conn'[e].done = conn[e].done
          /\ conn'[e].nc = conn[e].nc
          /\ \A j \in SessIdx : /\ sess'[j].done = sess[j].done
                                 /\ sess'[j].inClosed = sess[j].inClosed
                                 /\ sess'[j].inq = sess[j].inq
                                 /\ sess'[j].err = sess[j].err]_vars

\* a stale close was served on a connection whose table has a newer session
\* for the id of the session that was closed for a full queue
C40_StaleBesideNewer ==
    \E i \in SessIdx, j \in SessIdx :
        LET e == sess[i].e IN
        /\ conn[e].stale /\ sess[i].pc = "end" /\ sess[i].done /\ i \notin conn[e].tbl
        /\ j \in conn[e].tbl /\ sess[j].id = sess[i].id /\ ~sess[j].done
        /\ conn[e].arb = "serve"

====
